---- MODULE Spec2Model ----
(***************************************************************************)
(* Verification model of the go_equip scraping pipeline.                   *)
(*                                                                         *)
(*  SpecPool : the two proxy managers (scraper.ProxyManager, which tracks  *)
(*             bans in a retry-count map, and proxy.ProxyManager, which    *)
(*             is the one handed to worker sessions).                      *)
(*  SpecConc : the concurrent main (worker pool, shared aggregate,         *)
(*             periodic / final / emergency saves).                        *)
(*  SpecSeq  : the two sequential mains (dynamic loop and fixed range).    *)
(*  SpecFetch: TakeScreenshotPlaywright, one page fetch with its retries.  *)
(*  SpecRace : goroutines calling one proxy manager at the same time.      *)
(*  SpecExtract : ocrworker.ExtractSellerInfo and the append of its result.*)
(*  SpecSeed  : seeding of the page channel for any flags.                 *)
(*  SpecCooldown : the ProxyManager variant with one loop and a reset.     *)
(*  SpecSession : browser sessions under any Initialize / Close sequence.  *)
(*  SpecCollect : concurrentScrapePages.                                   *)
(*  SpecPtr   : proxy.ProxyManager with AddProxy at any time.              *)
(***************************************************************************)
EXTENDS Integers, Sequences, FiniteSets, TLC

\* ------------------------------------------------------------------------
\* Bounds of the model
\* ------------------------------------------------------------------------
MaxProxies == 2      \* largest pool explored
MaxTime == 60        \* the clock stops advancing once it has reached this (seconds)
TickStep == 60       \* seconds by which one Tick advances the clock
concurrency == 2     \* -concurrency flag of the concurrent main
endPage == 3         \* -end-page flag of the concurrent main
longEndPage == 6     \* -end-page flag of a run over a site without listings
seqRange == 7        \* pages in the range of a sequential run
FetchPages == 2      \* pages fetched one after the other by one caller
PoolCallers == 2     \* goroutines calling one proxy manager at the same time
MaxMatches == 1      \* most matches of one kind found in an OCR text
MaxFlag == 4         \* -start-page and -end-page range over -MaxFlag .. MaxFlag
MaxBrowsers == 3     \* browsers launched in one run of the session calls
ScrapeEndPage == 3   \* largest endPage of a concurrentScrapePages call

\* ------------------------------------------------------------------------
\* Program constants
\* ------------------------------------------------------------------------
maxRetries == 3      \* scraper.ProxyManager.maxRetries
maxFails == 3        \* proxy.ProxyManager.maxFails
ReuseCooldown == 60  \* seconds, scraper.ProxyManager.GetNextProxy
startPage == 1       \* -start-page flag of the concurrent main (default)
PeriodicEvery == 200 \* periodic save every 200 contacts
maxConsecutiveFailures == 5  \* both sequential mains
dynStartPage == 1    \* startPage of the dynamic sequential main
fixStartPage == 95   \* startPage of the fixed-range sequential main
navMaxRetries == 3   \* maxRetries of the navigation loop of a fetch

AllNames == <<"A", "B", "C", "D", "E", "F">>
ProxyNames == {AllNames[i] : i \in 1..MaxProxies}
NoProxy == ""
NilPtr == [arr |-> 0, idx |-> 0]

VARIABLES
    mgr,          \* which manager this behaviour drives: "scraper" | "proxy"
    \* --- scraper.ProxyManager
    proxies,      \* pm.proxies : sequence of endpoint strings
    current,      \* pm.current : 0-based cursor
    retryCount,   \* pm.retryCount : map endpoint -> failures (absent = 0)
    usedProxies,  \* pm.usedProxies : map endpoint -> time of last use
    now,          \* time.Now() in seconds
    pmLast,       \* last call on the manager (history)
    pmStreak,     \* endpoint -> consecutive MarkProxyFailed calls since its
                  \* last report of another kind or the last clearing of the
                  \* counters (history)
    pmRun,        \* endpoints returned by the GetNextProxy calls made since
                  \* the last call of another kind, the last len(proxies) + 1
                  \* of them (history)
    \* --- proxy.ProxyManager
    pxArrays,     \* backing arrays of pm.proxies, each a sequence of ProxyConfig
    pxSlice,      \* pm.proxies slice header: [arr, len]
    currentIdx,   \* pm.currentIdx : 0-based cursor
    pxHeld,       \* *ProxyConfig values callers obtained so far
    pxLast,       \* last call on the manager (history)
    pxStreak,     \* *ProxyConfig -> consecutive MarkProxyFailed calls since
                  \* the last MarkProxySuccess (history)
    pxRun,        \* as pmRun, for proxy.ProxyManager.GetNextProxy (history)
    \* --- concurrent main
    mainPc,       \* position of main
    wpc,          \* worker -> position of the worker goroutine
    pageChannel,  \* buffered channel of page numbers (closed once seeded)
    currentPage,  \* worker -> page it dequeued last
    sellerInfoList, \* worker -> len(sellerInfoList) of its current page
    totalContacts,  \* worker -> its local totalContacts
    appendTmp,    \* worker -> the slice length its append read
    mu,           \* holder of the aggregate mutex: "free", "main" or a worker
    allSellerInfo,  \* len(allSellerInfo)
    writes,       \* exports written so far: sequence of [kind, n]
    proc,         \* "running" | "exited" | "crashed" | "deadlock"
    appended,     \* records handed to append so far (history)
    maxPages,     \* -end-page flag: last page of the range
    siteYields,   \* record counts a page of the scraped site can give
    workerSessions,     \* workerSessions : worker id -> "none" | "active"
    workerSessionMutex, \* holder of workerSessionMutex
    sessionMutex, \* worker id -> holder of that session's Mutex
    session,      \* worker -> id of the session its fetch obtained
    launches,     \* worker -> browsers its session initialisation launched
    browserCloses,  \* worker -> Browser.Close() calls on those browsers
    established,  \* workers whose session initialisation succeeded (history)
    dequeueCount, \* page -> times it was received from pageChannel (history)
    \* --- sequential mains
    seqVariant,   \* "dynamic" | "fixed"
    seqPc,        \* position of main
    seqCurrentPage,      \* currentPage
    consecutiveFailures, \* consecutiveFailures
    seqAllSellerInfo,    \* len(allSellerInfo)
    seqWrites,    \* exports written so far
    seqProc,      \* "running" | "exited" | "fatal"
    seqLast,      \* outcome of the page fetched last (history)
    zeroRun,      \* pages in a row with a screenshot and no record (history)
    \* --- page fetch
    fVariant,     \* "global" | "worker": which fetch function is followed
    fPc,          \* position of the caller / of the fetch
    fPage,        \* page number of the current fetch
    fRetry,       \* navigation attempts made for the current page
    fSession,     \* "none" | "active": sessionActive, or workerSessions[id].Active
    fProxy,       \* proxy the global session was launched with
    fContent,     \* the page the current fetch loaded
    fCaptcha,     \* captchaPresent / captchaDetected, waits done, and
                  \* whether the CAPTCHA was still there after the wait
    fBanned,      \* the current fetch confirmed a ban
    fResult,      \* value returned by the current fetch
    fTrace,       \* calls made by the current fetch (history)
    fOutcomes,    \* outcomes met by the current fetch (history)
    missedPages,  \* files written by logMissedPage, in order
    handed,       \* pages whose image went to OCR and extraction (history)
    fPrev,        \* page, proxy and ban verdict of the previous fetch (history)
    \* --- concurrent callers of one proxy manager
    calls,        \* caller -> its call in progress: position, method,
                  \* argument, locals (idx, attempts, phase) and result
    mutex,        \* pm.mutex of proxy.ProxyManager: writer and readers
    \* --- extraction
    exText,       \* what the OCR text of the page holds
    exSellerInfoList,  \* sellerInfoList returned by ExtractSellerInfo
    exAllSellerInfo,   \* allSellerInfo, the records themselves
    exPc,         \* "text" | "extracted" | "appended"
    \* --- seeding of the page channel
    seedFlags,    \* the flags -start-page and -end-page
    seedCap,      \* capacity of pageChannel
    seedChannel,  \* pages buffered in pageChannel
    seedPage,     \* loop variable page
    seedPc,       \* "make" | "send" | "closed" | "blocked" | "panic"
    \* --- browser sessions
    sessionActive,   \* package variable sessionActive
    globalBrowser,   \* package variable globalBrowser: a browser or NoBrowser (nil)
    workerRegistry,  \* workerSessions: the Active session's browser of each worker
    browsers,        \* every browser launched so far
    sessLast,        \* the last call
    sessPc,          \* "calls" while the session functions are being called
    \* --- concurrentScrapePages
    scrapeRange,     \* the argument endPage
    scrapePc,        \* page -> position of the goroutine of that page
    semaphore,       \* slots of the semaphore channel in use
    results,         \* results buffered in the results channel (page numbers)
    resultsClosed,   \* close(results) has run
    allContacts,     \* results received by the collector (page numbers)
    collectorPc      \* "range" | "done"

pxVars == <<pxArrays, pxSlice, currentIdx, pxHeld, pxLast, pxStreak, pxRun>>

pmVars == <<proxies, current, retryCount, usedProxies, now, pmLast, pmStreak,
           pmRun>>

sessVars == <<workerSessions, launches, browserCloses, workerSessionMutex,
              sessionMutex, session, established>>

runVars == <<maxPages, siteYields, dequeueCount>>

concVars == <<mainPc, wpc, pageChannel, currentPage, sellerInfoList,
              totalContacts, appendTmp, mu, allSellerInfo, writes, proc, appended,
              sessVars, runVars>>

seqVars == <<seqVariant, seqPc, seqCurrentPage, consecutiveFailures,
             seqAllSellerInfo, seqWrites, seqProc, seqLast, zeroRun>>

fetchVars == <<fVariant, fPc, fPage, fRetry, fSession, fProxy, fContent,
               fCaptcha, fBanned, fResult, fTrace, fOutcomes, missedPages,
               handed, fPrev>>

raceVars == <<calls, mutex>>

exVars == <<exText, exSellerInfoList, exAllSellerInfo, exPc>>

seedVars == <<seedFlags, seedCap, seedChannel, seedPage, seedPc>>

sessionVars == <<sessionActive, globalBrowser, workerRegistry, browsers, sessLast, sessPc>>

collectVars == <<scrapeRange, scrapePc, semaphore, results, resultsClosed,
                 allContacts, collectorPc>>

notPool == <<concVars, seqVars, fetchVars, raceVars, exVars, seedVars, sessionVars, collectVars>>

notConc == <<mgr, pmVars, pxVars, seqVars, fetchVars, raceVars, exVars, seedVars, sessionVars, collectVars>>

notSeq == <<mgr, pmVars, pxVars, concVars, fetchVars, raceVars, exVars, seedVars, sessionVars, collectVars>>

notFetch == <<mgr, pmVars, pxVars, concVars, seqVars, raceVars, exVars, seedVars, sessionVars, collectVars>>

notRace == <<concVars, seqVars, fetchVars, exVars, seedVars, sessionVars, collectVars>>

notExtract == <<mgr, pmVars, pxVars, concVars, seqVars, fetchVars, raceVars, seedVars, sessionVars, collectVars>>

notSeed == <<mgr, pmVars, pxVars, concVars, seqVars, fetchVars, raceVars, exVars, sessionVars, collectVars>>

notSession == <<mgr, pmVars, pxVars, concVars, seqVars, fetchVars, raceVars, exVars, seedVars, collectVars>>

notCollect == <<mgr, pmVars, pxVars, concVars, seqVars, fetchVars, raceVars, exVars, seedVars, sessionVars>>

\* ------------------------------------------------------------------------
\* scraper.ProxyManager
\* ------------------------------------------------------------------------

\* Go map read: the zero value when the key is absent.
RC(rc, p) == IF p \in DOMAIN rc THEN rc[p] ELSE 0

MapPut(m, k, v) == [x \in (DOMAIN m) \cup {k} |-> IF x = k THEN v ELSE m[x]]

EmptyMap == [x \in {} |-> 0]

\* The last k elements of a sequence
KeepLast(seq, k) ==
    IF Len(seq) <= k THEN seq ELSE SubSeq(seq, Len(seq) - k + 1, Len(seq))

IsBanned(rc, p) == RC(rc, p) >= maxRetries

RecentlyUsed(used, t, p) == p \in DOMAIN used /\ t - used[p] < ReuseCooldown

\* ScanFresh keeping the endpoint under the cursor as long as it is not
\* banned.
ScanFresh_StaysOnCursor(cur, attempts) ==
    IF attempts >= Len(proxies)
    THEN [found |-> FALSE, cur |-> cur]
    ELSE IF IsBanned(retryCount, proxies[cur + 1])
         THEN [found |-> FALSE, cur |-> cur]
         ELSE [found |-> TRUE, cur |-> cur]

\* First loop of GetNextProxy: advance the cursor up to len(proxies) times,
\* skipping banned and recently used endpoints.
RECURSIVE ScanFresh(_, _)
ScanFresh(cur, attempts) ==
    IF attempts >= Len(proxies)
    THEN [found |-> FALSE, cur |-> cur]
    ELSE LET c2 == (cur + 1) % Len(proxies)
             p  == proxies[c2 + 1]
         IN IF IsBanned(retryCount, p) THEN ScanFresh(c2, attempts + 1)
            ELSE IF RecentlyUsed(usedProxies, now, p) THEN ScanFresh(c2, attempts + 1)
            ELSE [found |-> TRUE, cur |-> c2]

\* ScanAny without its ban check: the endpoint after the cursor is taken
\* whatever its failure count.
ScanAny_NoBanCheck(cur, attempts) ==
    IF attempts >= Len(proxies)
    THEN [found |-> FALSE, cur |-> cur]
    ELSE [found |-> TRUE, cur |-> (cur + 1) % Len(proxies)]

\* Second loop of GetNextProxy: only banned endpoints are skipped.
RECURSIVE ScanAny(_, _)
ScanAny(cur, attempts) ==
    IF attempts >= Len(proxies)
    THEN [found |-> FALSE, cur |-> cur]
    ELSE LET c2 == (cur + 1) % Len(proxies)
             p  == proxies[c2 + 1]
         IN IF IsBanned(retryCount, p) THEN ScanAny(c2, attempts + 1)
            ELSE [found |-> TRUE, cur |-> c2]

GetHealthyProxies ==
    Cardinality({i \in 1..Len(proxies) : RC(retryCount, proxies[i]) < maxRetries})

\* len(pm.retryCount) is the number of keys of the map.
GetProxyStats ==
    [total_proxies    |-> Len(proxies),
     active_proxies   |-> Len(proxies) - Cardinality(DOMAIN retryCount),
     failed_proxies   |-> Cardinality(DOMAIN retryCount),
     current_rotation |-> current]

\* Record of the last call: the operation, its argument, its result, the
\* branch taken, and (from the state before the call) the number of healthy
\* endpoints and the failure count of the endpoint concerned.
PmCall(op, arg, ret, path) ==
    [op |-> op, arg |-> arg, ret |-> ret, path |-> path,
     healthyBefore |-> GetHealthyProxies,
     countBefore |-> RC(retryCount, IF op = "GetNextProxy" THEN ret ELSE arg)]

GetNextProxy ==
    /\ mgr = "scraper"
    /\ IF Len(proxies) = 0
       THEN /\ pmLast' = PmCall("GetNextProxy", NoProxy, NoProxy, "empty")
            /\ UNCHANGED <<current, retryCount, usedProxies, pmStreak>>
       ELSE LET f == ScanFresh(current, 0) IN
            IF f.found
            THEN /\ current' = f.cur
                 /\ usedProxies' = MapPut(usedProxies, proxies[f.cur + 1], now)
                 /\ pmLast' = PmCall("GetNextProxy", NoProxy, proxies[f.cur + 1], "fresh")
                 /\ UNCHANGED <<retryCount, pmStreak>>
            ELSE LET a == ScanAny(f.cur, 0) IN
                 IF a.found
                 THEN /\ current' = a.cur
                      /\ usedProxies' = MapPut(usedProxies, proxies[a.cur + 1], now)
                      /\ pmLast' = PmCall("GetNextProxy", NoProxy, proxies[a.cur + 1], "recycled")
                      /\ UNCHANGED <<retryCount, pmStreak>>
                 ELSE \E randomIndex \in 0..(Len(proxies) - 1) :
                      /\ retryCount' = EmptyMap
                      /\ pmStreak' = EmptyMap
                      /\ current' = randomIndex
                      /\ usedProxies' = MapPut(EmptyMap, proxies[randomIndex + 1], now)
                      /\ pmLast' = PmCall("GetNextProxy", NoProxy, proxies[randomIndex + 1], "emergency")
    /\ pmRun' = KeepLast(Append(pmRun, pmLast'.ret), Len(proxies) + 1)
    /\ UNCHANGED <<mgr, proxies, now, pxVars>>
    /\ UNCHANGED notPool

\* The failure counter is capped one above the ban threshold.
MarkProxyFailed(proxy) ==
    /\ mgr = "scraper"
    /\ RC(retryCount, proxy) <= maxRetries
    /\ retryCount' = MapPut(retryCount, proxy, RC(retryCount, proxy) + 1)
    /\ pmLast' = PmCall("MarkProxyFailed", proxy, NoProxy, "")
    /\ pmStreak' = MapPut(pmStreak, proxy, RC(pmStreak, proxy) + 1)
    /\ pmRun' = <<>>
    /\ UNCHANGED <<mgr, proxies, current, usedProxies, now, pxVars>>
    /\ UNCHANGED notPool

\* MarkProxyBanned counting the report as one more failure.
MarkProxyBanned_AsFailure(proxy) ==
    /\ mgr = "scraper"
    /\ retryCount' = MapPut(retryCount, proxy, RC(retryCount, proxy) + 1)
    /\ pmLast' = PmCall("MarkProxyBanned", proxy, NoProxy, "")
    /\ pmStreak' = MapPut(pmStreak, proxy, 0)
    /\ pmRun' = <<>>
    /\ UNCHANGED <<mgr, proxies, current, usedProxies, now, pxVars>>
    /\ UNCHANGED notPool

MarkProxyBanned(proxy) ==
    /\ mgr = "scraper"
    /\ retryCount' = MapPut(retryCount, proxy, maxRetries + 1)
    /\ pmLast' = PmCall("MarkProxyBanned", proxy, NoProxy, "")
    /\ pmStreak' = MapPut(pmStreak, proxy, 0)
    /\ pmRun' = <<>>
    /\ UNCHANGED <<mgr, proxies, current, usedProxies, now, pxVars>>
    /\ UNCHANGED notPool

Tick ==
    /\ mgr = "scraper"
    /\ now < MaxTime
    /\ now' = now + TickStep
    /\ UNCHANGED <<mgr, proxies, current, retryCount, usedProxies, pmLast,
                   pmStreak, pmRun, pxVars>>
    /\ UNCHANGED notPool

\* ------------------------------------------------------------------------
\* proxy.ProxyManager
\* ------------------------------------------------------------------------

\* LastUsed is kept as "zero" (time.Time{}) or "set" (a time.Now() value):
\* no code path reads more of it than that.
NewProxyConfig == [Active |-> TRUE, LastUsed |-> "zero", FailCount |-> 0]

PxLen == pxSlice.len

\* pm.proxies[i], 0-based
PxAt(i) == pxArrays[pxSlice.arr][i + 1]

PxPtr(i) == [arr |-> pxSlice.arr, idx |-> i]

Deref(ptr) == pxArrays[ptr.arr][ptr.idx + 1]

Store(ptr, cfg) ==
    [pxArrays EXCEPT ![ptr.arr] = [@ EXCEPT ![ptr.idx + 1] = cfg]]

GetActiveProxyCount == Cardinality({i \in 0..(PxLen - 1) : PxAt(i).Active})

\* Record of the last call: the operation, its argument, its result, and
\* (from the state before the call) the number of active endpoints and the
\* fields of the endpoint concerned.
PxCall(op, arg, ret, err) ==
    LET ptr == IF arg # NilPtr THEN arg ELSE ret IN
    [op |-> op, arg |-> arg, ret |-> ret, err |-> err,
     activeCountBefore |-> GetActiveProxyCount,
     failsBefore |-> IF ptr = NilPtr THEN 0 ELSE Deref(ptr).FailCount,
     activeBefore |-> IF ptr = NilPtr THEN FALSE ELSE Deref(ptr).Active]

\* PxScan leaving the cursor on the endpoint it returns.
PxScan_CursorStays(idx, startIdx) ==
    LET next == (idx + 1) % PxLen
    IN IF PxAt(idx).Active THEN [found |-> TRUE, idx |-> idx, cur |-> idx]
       ELSE [found |-> FALSE, idx |-> idx, cur |-> next]

\* The for-loop of GetNextProxy: take the endpoint under the cursor, advance
\* the cursor, return the endpoint if Active, give up once the cursor is back
\* at startIdx.
RECURSIVE PxScan(_, _)
PxScan(idx, startIdx) ==
    LET next == (idx + 1) % PxLen
    IN IF PxAt(idx).Active THEN [found |-> TRUE, idx |-> idx, cur |-> next]
       ELSE IF next = startIdx THEN [found |-> FALSE, idx |-> idx, cur |-> next]
       ELSE PxScan(next, startIdx)

PxGetNextProxy ==
    /\ mgr = "proxy"
    /\ IF PxLen = 0
       THEN /\ pxLast' = PxCall("GetNextProxy", NilPtr, NilPtr, TRUE)
            /\ UNCHANGED <<pxArrays, currentIdx, pxHeld>>
       ELSE LET r == PxScan(currentIdx, currentIdx) IN
            /\ currentIdx' = r.cur
            /\ IF r.found
               THEN /\ pxArrays' = Store(PxPtr(r.idx), [PxAt(r.idx) EXCEPT !.LastUsed = "set"])
                    /\ pxHeld' = pxHeld \cup {PxPtr(r.idx)}
                    /\ pxLast' = PxCall("GetNextProxy", NilPtr, PxPtr(r.idx), FALSE)
               ELSE /\ pxLast' = PxCall("GetNextProxy", NilPtr, NilPtr, TRUE)
                    /\ UNCHANGED <<pxArrays, pxHeld>>
    /\ pxRun' = IF pxLast'.err THEN <<>>
                ELSE KeepLast(Append(pxRun, pxLast'.ret), PxLen + 1)
    /\ UNCHANGED <<mgr, pmVars, pxSlice, pxStreak>>
    /\ UNCHANGED notPool

PxGetRandomProxy ==
    /\ mgr = "proxy"
    /\ LET activeProxies == {i \in 0..(PxLen - 1) : PxAt(i).Active} IN
       IF activeProxies = {}
       THEN /\ pxLast' = PxCall("GetRandomProxy", NilPtr, NilPtr, TRUE)
            /\ UNCHANGED <<pxArrays, pxHeld>>
       ELSE \E i \in activeProxies :
            /\ pxArrays' = Store(PxPtr(i), [PxAt(i) EXCEPT !.LastUsed = "set"])
            /\ pxHeld' = pxHeld \cup {PxPtr(i)}
            /\ pxLast' = PxCall("GetRandomProxy", NilPtr, PxPtr(i), FALSE)
    /\ pxRun' = <<>>
    /\ UNCHANGED <<mgr, pmVars, pxSlice, currentIdx, pxStreak>>
    /\ UNCHANGED notPool

\* MarkProxyFailed with the threshold test written > instead of >=.
PxMarkProxyFailed_OffByOne(proxy) ==
    /\ mgr = "proxy"
    /\ proxy \in pxHeld
    /\ Deref(proxy).FailCount <= maxFails
    /\ LET n == Deref(proxy).FailCount + 1 IN
       pxArrays' = Store(proxy, [Deref(proxy) EXCEPT
                                   !.FailCount = n,
                                   !.Active = IF n > maxFails THEN FALSE ELSE @])
    /\ pxLast' = PxCall("MarkProxyFailed", proxy, NilPtr, FALSE)
    /\ pxStreak' = MapPut(pxStreak, proxy, RC(pxStreak, proxy) + 1)
    /\ pxRun' = <<>>
    /\ UNCHANGED <<mgr, pmVars, pxSlice, currentIdx, pxHeld>>
    /\ UNCHANGED notPool

\* The failure counter is capped one above the ban threshold.
PxMarkProxyFailed(proxy) ==
    /\ mgr = "proxy"
    /\ proxy \in pxHeld
    /\ Deref(proxy).FailCount <= maxFails
    /\ LET n == Deref(proxy).FailCount + 1 IN
       pxArrays' = Store(proxy, [Deref(proxy) EXCEPT
                                   !.FailCount = n,
                                   !.Active = IF n >= maxFails THEN FALSE ELSE @])
    /\ pxLast' = PxCall("MarkProxyFailed", proxy, NilPtr, FALSE)
    /\ pxStreak' = MapPut(pxStreak, proxy, RC(pxStreak, proxy) + 1)
    /\ pxRun' = <<>>
    /\ UNCHANGED <<mgr, pmVars, pxSlice, currentIdx, pxHeld>>
    /\ UNCHANGED notPool

PxMarkProxySuccess(proxy) ==
    /\ mgr = "proxy"
    /\ proxy \in pxHeld
    /\ pxArrays' = IF Deref(proxy).FailCount > 0
                   THEN Store(proxy, [Deref(proxy) EXCEPT !.FailCount = 0])
                   ELSE pxArrays
    /\ pxLast' = PxCall("MarkProxySuccess", proxy, NilPtr, FALSE)
    /\ pxStreak' = MapPut(pxStreak, proxy, 0)
    /\ pxRun' = <<>>
    /\ UNCHANGED <<mgr, pmVars, pxSlice, currentIdx, pxHeld>>
    /\ UNCHANGED notPool

\* Capacity of the backing array of pm.proxies after len appends, one
\* element at a time, to the empty slice of NewProxyManager: append doubles
\* the capacity of a full array (0, 1, 2, 4, 8).
PxCap(len) ==
    IF len = 0 THEN 0
    ELSE CHOOSE c \in {1, 2, 4, 8} :
           c >= len /\ \A d \in {1, 2, 4, 8} : d >= len => c <= d

\* AddProxy: pm.proxies = append(pm.proxies, proxy).  With the backing
\* array full, append copies the elements into a new array; pointers into
\* the old array keep pointing there.
PxAddProxy ==
    /\ mgr = "proxy"
    /\ PxLen < MaxProxies
    /\ IF PxLen = PxCap(PxLen)
       THEN /\ pxArrays' = Append(pxArrays,
                                  Append(SubSeq(pxArrays[pxSlice.arr], 1, PxLen),
                                         NewProxyConfig))
            /\ pxSlice' = [arr |-> Len(pxArrays) + 1, len |-> PxLen + 1]
       ELSE /\ pxArrays' = [pxArrays EXCEPT ![pxSlice.arr] = Append(@, NewProxyConfig)]
            /\ pxSlice' = [arr |-> pxSlice.arr, len |-> PxLen + 1]
    /\ pxLast' = PxCall("AddProxy", NilPtr, NilPtr, FALSE)
    /\ pxRun' = <<>>
    /\ UNCHANGED <<mgr, pmVars, currentIdx, pxHeld, pxStreak>>
    /\ UNCHANGED notPool

\* ------------------------------------------------------------------------
\* SpecPool
\* ------------------------------------------------------------------------

\* Fetched lists explored: n distinct endpoints, or n - 1 distinct endpoints
\* followed by a repetition of the first one (fetchProxies keeps duplicates).
Prefix(n) == [i \in 1..n |-> AllNames[i]]

Pools == {Prefix(n) : n \in 1..MaxProxies}
         \cup {Prefix(n - 1) \o <<AllNames[1]>> : n \in 2..MaxProxies}

NoCall == [op |-> "none"]

\* scraper.NewProxyManager: a non-empty fetched list, a random cursor, and
\* the endpoints that contain a known banned IP pre-banned.
NewProxyManager ==
    /\ proxies \in Pools
    /\ current \in 0..(Len(proxies) - 1)
    /\ \E knownBanned \in SUBSET {proxies[i] : i \in 1..Len(proxies)} :
         retryCount = [p \in knownBanned |-> maxRetries + 1]
    /\ usedProxies = EmptyMap
    /\ now = 0
    /\ pmLast = NoCall
    /\ pmStreak = EmptyMap
    /\ pmRun = <<>>

\* proxy.NewProxyManager followed by the AddProxy calls of the setup phase.
PxNewProxyManager ==
    /\ \E n \in 0..MaxProxies :
         /\ pxArrays = <<[i \in 1..n |-> NewProxyConfig]>>
         /\ pxSlice = [arr |-> 1, len |-> n]
    /\ currentIdx = 0
    /\ pxHeld = {}
    /\ pxLast = NoCall
    /\ pxStreak = EmptyMap
    /\ pxRun = <<>>

PmIdle ==
    /\ proxies = <<>> /\ current = 0 /\ retryCount = EmptyMap
    /\ usedProxies = EmptyMap /\ now = 0 /\ pmLast = NoCall
    /\ pmStreak = EmptyMap /\ pmRun = <<>>

PxIdle ==
    /\ pxArrays = <<>> /\ pxSlice = [arr |-> 0, len |-> 0]
    /\ currentIdx = 0 /\ pxHeld = {} /\ pxLast = NoCall
    /\ pxStreak = EmptyMap /\ pxRun = <<>>

\* ------------------------------------------------------------------------
\* Concurrent main: worker pool, worker sessions, shared aggregate, saves
\* ------------------------------------------------------------------------

Workers == 1..concurrency

\* len(sellerInfoList) values a page can produce
Yields == {0, 300}

\* What the fetch / OCR / extraction of one page gives the worker: no
\* result (screenshot or OCR failed), or a list of n records.
FetchOutcomes ==
    {[ok |-> FALSE, n |-> 0]} \cup {[ok |-> TRUE, n |-> n] : n \in siteYields}

Write(kind, n) == [kind |-> kind, n |-> n]

\* Values of a mutex
Free == <<"free", 0>>
HeldByMain == <<"main", 0>>
HeldBy(w) == <<"worker", w>>

\* Results of InitializeWorkerBrowserSession: playwright.Run failed, Launch
\* failed, NewContext failed, NewPage failed, or the session was stored.
InitOutcomes == {"runErr", "launchErr", "contextErr", "pageErr", "ok"}

\* for page := startPage; page <= maxPages; page++ { pageChannel <- page };
\* close(pageChannel); then the worker goroutines are started.
\* MainSeed filling the channel from the last page down to the first.
MainSeed_Descending ==
    /\ proc = "running" /\ mainPc = "seed"
    /\ pageChannel' = [i \in 1..(maxPages - startPage + 1) |-> maxPages - i + 1]
    /\ mainPc' = "wait"
    /\ wpc' = [w \in Workers |-> "start"]
    /\ UNCHANGED <<currentPage, sellerInfoList, totalContacts, appendTmp, mu,
                   allSellerInfo, writes, proc, appended>>
    /\ UNCHANGED <<sessVars, runVars>>
    /\ UNCHANGED notConc

MainSeed ==
    /\ proc = "running" /\ mainPc = "seed"
    /\ pageChannel' = [i \in 1..(maxPages - startPage + 1) |-> startPage + i - 1]
    /\ mainPc' = "wait"
    /\ wpc' = [w \in Workers |-> "start"]
    /\ UNCHANGED <<currentPage, sellerInfoList, totalContacts, appendTmp, mu,
                   allSellerInfo, writes, proc, appended>>
    /\ UNCHANGED <<sessVars, runVars>>
    /\ UNCHANGED notConc

\* InitializeWorkerBrowserSession, entry: workerSessionMutex.Lock() with the
\* unlock deferred to the return.
WorkerStart(w) ==
    /\ proc = "running" /\ wpc[w] = "start"
    /\ workerSessionMutex = Free
    /\ workerSessionMutex' = HeldBy(w)
    /\ wpc' = [wpc EXCEPT ![w] = "init"]
    /\ UNCHANGED <<mainPc, pageChannel, currentPage, sellerInfoList,
                   totalContacts, appendTmp, mu, allSellerInfo, writes, proc, appended>>
    /\ UNCHANGED <<workerSessions, launches, browserCloses, sessionMutex,
                   session, established, runVars>>
    /\ UNCHANGED notConc

\* WorkerInit in which a worker that cannot establish its session empties
\* the page channel before it returns.
WorkerInit_FailureDrains(w) ==
    /\ proc = "running" /\ wpc[w] = "init"
    /\ IF workerSessions[w] = "active"
       THEN /\ wpc' = [wpc EXCEPT ![w] = "dequeue"]
            /\ UNCHANGED <<workerSessions, launches, browserCloses, established,
                           pageChannel>>
       ELSE \E r \in InitOutcomes :
            /\ launches' = [launches EXCEPT ![w] =
                              IF r \in {"contextErr", "pageErr", "ok"} THEN @ + 1 ELSE @]
            /\ browserCloses' = [browserCloses EXCEPT ![w] =
                              IF r \in {"contextErr", "pageErr"} THEN @ + 1 ELSE @]
            /\ workerSessions' = [workerSessions EXCEPT ![w] =
                              IF r = "ok" THEN "active" ELSE @]
            /\ established' = IF r = "ok" THEN established \cup {w} ELSE established
            /\ wpc' = [wpc EXCEPT ![w] = IF r = "ok" THEN "dequeue" ELSE "done"]
            /\ pageChannel' = IF r = "ok" THEN pageChannel ELSE <<>>
    /\ workerSessionMutex' = Free
    /\ UNCHANGED <<mainPc, currentPage, sellerInfoList,
                   totalContacts, appendTmp, mu, allSellerInfo, writes, proc, appended>>
    /\ UNCHANGED <<sessionMutex, session, runVars>>
    /\ UNCHANGED notConc

\* InitializeWorkerBrowserSession, body: the browser is launched, a failure
\* after the launch closes it again, success stores the session.  On error
\* the worker returns (wg.Done); its close is not yet deferred.
WorkerInit(w) ==
    /\ proc = "running" /\ wpc[w] = "init"
    /\ IF workerSessions[w] = "active"
       THEN /\ wpc' = [wpc EXCEPT ![w] = "dequeue"]
            /\ UNCHANGED <<workerSessions, launches, browserCloses, established>>
       ELSE \E r \in InitOutcomes :
            /\ launches' = [launches EXCEPT ![w] =
                              IF r \in {"contextErr", "pageErr", "ok"} THEN @ + 1 ELSE @]
            /\ browserCloses' = [browserCloses EXCEPT ![w] =
                              IF r \in {"contextErr", "pageErr"} THEN @ + 1 ELSE @]
            /\ workerSessions' = [workerSessions EXCEPT ![w] =
                              IF r = "ok" THEN "active" ELSE @]
            /\ established' = IF r = "ok" THEN established \cup {w} ELSE established
            /\ wpc' = [wpc EXCEPT ![w] = IF r = "ok" THEN "dequeue" ELSE "done"]
    /\ workerSessionMutex' = Free
    /\ UNCHANGED <<mainPc, pageChannel, currentPage, sellerInfoList,
                   totalContacts, appendTmp, mu, allSellerInfo, writes, proc, appended>>
    /\ UNCHANGED <<sessionMutex, session, runVars>>
    /\ UNCHANGED notConc

\* for currentPage := range pageChannel; when the channel is drained the
\* loop ends and the deferred functions run.
WorkerDequeue(w) ==
    /\ proc = "running" /\ wpc[w] = "dequeue"
    /\ IF pageChannel = <<>>
       THEN /\ wpc' = [wpc EXCEPT ![w] = "close"]
            /\ UNCHANGED <<pageChannel, currentPage, dequeueCount>>
       ELSE /\ currentPage' = [currentPage EXCEPT ![w] = Head(pageChannel)]
            /\ dequeueCount' = [dequeueCount EXCEPT ![Head(pageChannel)] = @ + 1]
            /\ pageChannel' = Tail(pageChannel)
            /\ wpc' = [wpc EXCEPT ![w] = "lookup"]
    /\ UNCHANGED <<mainPc, sellerInfoList, totalContacts, appendTmp, mu,
                   allSellerInfo, writes, proc, appended>>
    /\ UNCHANGED <<sessVars, maxPages, siteYields>>
    /\ UNCHANGED notConc

\* WorkerLookup with the unlock of workerSessionMutex deferred to the return
\* of the fetch, as InitializeWorkerBrowserSession defers it.
WorkerLookup_DeferredUnlock(w) ==
    /\ proc = "running" /\ wpc[w] = "lookup"
    /\ workerSessionMutex = Free
    /\ IF workerSessions[w] # "active"
       THEN /\ wpc' = [wpc EXCEPT ![w] = "dequeue"]
            /\ UNCHANGED <<sessionMutex, session, workerSessionMutex>>
       ELSE /\ sessionMutex[w] = Free
            /\ workerSessionMutex' = HeldBy(w)
            /\ session' = [session EXCEPT ![w] = w]
            /\ sessionMutex' = [sessionMutex EXCEPT ![w] = HeldBy(w)]
            /\ wpc' = [wpc EXCEPT ![w] = "fetch"]
    /\ UNCHANGED <<mainPc, pageChannel, currentPage, sellerInfoList,
                   totalContacts, appendTmp, mu, allSellerInfo, writes, proc, appended>>
    /\ UNCHANGED <<workerSessions, launches, browserCloses,
                   established, maxPages, siteYields, dequeueCount>>
    /\ UNCHANGED notConc

\* TakeScreenshotPlaywrightWorker, entry: the session registered under
\* workerID is read under workerSessionMutex, which is released at once;
\* without an active session the fetch returns "" and the worker continues
\* with the next page; otherwise session.Mutex is taken for the fetch.
WorkerLookup(w) ==
    /\ proc = "running" /\ wpc[w] = "lookup"
    /\ workerSessionMutex = Free
    /\ IF workerSessions[w] # "active"
       THEN /\ wpc' = [wpc EXCEPT ![w] = "dequeue"]
            /\ UNCHANGED <<sessionMutex, session, workerSessionMutex>>
       ELSE /\ sessionMutex[w] = Free
            /\ workerSessionMutex' = Free
            /\ session' = [session EXCEPT ![w] = w]
            /\ sessionMutex' = [sessionMutex EXCEPT ![w] = HeldBy(w)]
            /\ wpc' = [wpc EXCEPT ![w] = "fetch"]
    /\ UNCHANGED <<mainPc, pageChannel, currentPage, sellerInfoList,
                   totalContacts, appendTmp, mu, allSellerInfo, writes, proc, appended>>
    /\ UNCHANGED <<workerSessions, launches, browserCloses,
                   established, maxPages, siteYields, dequeueCount>>
    /\ UNCHANGED notConc

\* The rest of TakeScreenshotPlaywrightWorker (navigation with its retries,
\* CAPTCHA handling, missed-page logging, screenshot; session.Mutex is
\* released on return), queue.Enqueue (always nil), ExtractTextFromImage,
\* ExtractSellerInfo.  A failed screenshot or an OCR error continues with
\* the next page.
WorkerFetch(w) ==
    /\ proc = "running" /\ wpc[w] = "fetch"
    /\ \E outcome \in FetchOutcomes :
         IF ~outcome.ok
         THEN /\ wpc' = [wpc EXCEPT ![w] = "dequeue"]
                /\ UNCHANGED sellerInfoList
         ELSE /\ sellerInfoList' = [sellerInfoList EXCEPT ![w] = outcome.n]
              /\ wpc' = [wpc EXCEPT ![w] = "lock"]
    /\ sessionMutex' = [sessionMutex EXCEPT ![session[w]] = Free]
    /\ UNCHANGED <<mainPc, pageChannel, currentPage, totalContacts, appendTmp,
                   mu, allSellerInfo, writes, proc, appended>>
    /\ UNCHANGED <<workerSessions, launches, browserCloses, workerSessionMutex,
                   session, established, maxPages, siteYields, dequeueCount>>
    /\ UNCHANGED notConc

\* CloseWorkerBrowserSession(workerID) on the registry s and the close
\* counters c: an active session has its context and browser closed once
\* and its entry deleted; otherwise nothing happens.
CloseSession_NoActiveCheck(s, c, w) ==
    [sessions |-> [s EXCEPT ![w] = "none"],
     closes |-> [c EXCEPT ![w] = @ + 1]]

CloseSession(s, c, w) ==
    IF s[w] = "active"
    THEN [sessions |-> [s EXCEPT ![w] = "none"],
          closes |-> [c EXCEPT ![w] = @ + 1]]
    ELSE [sessions |-> s, closes |-> c]

\* A panic inside a fetch unwinds the worker goroutine: the deferred
\* session.Mutex.Unlock, CloseWorkerBrowserSession and wg.Done run.  The
\* panic is recovered nowhere: the runtime then ends the process, and
\* main's deferred function does not run.
WorkerPanic(w) ==
    /\ proc = "running" /\ wpc[w] = "fetch"
    /\ workerSessionMutex = Free
    /\ LET r == CloseSession(workerSessions, browserCloses, w) IN
         /\ workerSessions' = r.sessions
         /\ browserCloses' = r.closes
    /\ sessionMutex' = [sessionMutex EXCEPT ![session[w]] = Free]
    /\ proc' = "crashed"
    /\ wpc' = [wpc EXCEPT ![w] = "done"]
    /\ UNCHANGED <<mainPc, pageChannel, currentPage, sellerInfoList,
                   totalContacts, appendTmp, mu, allSellerInfo, writes, appended>>
    /\ UNCHANGED <<launches, workerSessionMutex, session, established, runVars>>
    /\ UNCHANGED notConc

\* The deferred functions of a worker whose loop ended:
\* CloseWorkerBrowserSession(workerID) under workerSessionMutex and
\* session.Mutex, then wg.Done.
WorkerClose(w) ==
    /\ proc = "running" /\ wpc[w] = "close"
    /\ workerSessionMutex = Free
    /\ workerSessions[w] = "active" => sessionMutex[w] = Free
    /\ LET r == CloseSession(workerSessions, browserCloses, w) IN
         /\ workerSessions' = r.sessions
         /\ browserCloses' = r.closes
    /\ wpc' = [wpc EXCEPT ![w] = "done"]
    /\ UNCHANGED <<mainPc, pageChannel, currentPage, sellerInfoList,
                   totalContacts, appendTmp, mu, allSellerInfo, writes, proc, appended>>
    /\ UNCHANGED <<launches, workerSessionMutex, sessionMutex, session,
                   established, runVars>>
    /\ UNCHANGED notConc

\* WorkerLock without mutual exclusion: the lock is taken whoever holds it.
WorkerLock_NoExclusion(w) ==
    /\ proc = "running" /\ wpc[w] \in {"lock", "lock2"}
    /\ mu' = HeldBy(w)
    /\ wpc' = [wpc EXCEPT ![w] = IF wpc[w] = "lock" THEN "appendRead" ELSE "doubleCheck"]
    /\ UNCHANGED <<mainPc, pageChannel, currentPage, sellerInfoList,
                   totalContacts, appendTmp, allSellerInfo, writes, proc, appended>>
    /\ UNCHANGED <<sessVars, runVars>>
    /\ UNCHANGED notConc

\* mu.Lock() before the append (line 544) and before the double-check
\* (line 554)
WorkerLock(w) ==
    /\ proc = "running" /\ wpc[w] \in {"lock", "lock2"}
    /\ mu = Free
    /\ mu' = HeldBy(w)
    /\ wpc' = [wpc EXCEPT ![w] = IF wpc[w] = "lock" THEN "appendRead" ELSE "doubleCheck"]
    /\ UNCHANGED <<mainPc, pageChannel, currentPage, sellerInfoList,
                   totalContacts, appendTmp, allSellerInfo, writes, proc, appended>>
    /\ UNCHANGED <<sessVars, runVars>>
    /\ UNCHANGED notConc

\* append(allSellerInfo, sellerInfoList...) reads the slice ...
WorkerAppendRead(w) ==
    /\ proc = "running" /\ wpc[w] = "appendRead"
    /\ appendTmp' = [appendTmp EXCEPT ![w] = allSellerInfo]
    /\ wpc' = [wpc EXCEPT ![w] = "appendWrite"]
    /\ UNCHANGED <<mainPc, pageChannel, currentPage, sellerInfoList,
                   totalContacts, mu, allSellerInfo, writes, proc, appended>>
    /\ UNCHANGED <<sessVars, runVars>>
    /\ UNCHANGED notConc

\* ... and assigns the grown slice; totalContacts := len(allSellerInfo)
WorkerAppendWrite(w) ==
    /\ proc = "running" /\ wpc[w] = "appendWrite"
    /\ allSellerInfo' = appendTmp[w] + sellerInfoList[w]
    /\ totalContacts' = [totalContacts EXCEPT ![w] = appendTmp[w] + sellerInfoList[w]]
    /\ appended' = appended + sellerInfoList[w]
    /\ wpc' = [wpc EXCEPT ![w] = "unlock"]
    /\ UNCHANGED <<mainPc, pageChannel, currentPage, sellerInfoList,
                   appendTmp, mu, writes, proc>>
    /\ UNCHANGED <<sessVars, runVars>>
    /\ UNCHANGED notConc

\* mu.Unlock(), then: if totalContacts > 0 && totalContacts%200 == 0
WorkerUnlock(w) ==
    /\ proc = "running" /\ wpc[w] = "unlock"
    /\ mu' = Free
    /\ wpc' = [wpc EXCEPT ![w] =
                 IF totalContacts[w] > 0 /\ totalContacts[w] % PeriodicEvery = 0
                 THEN "lock2" ELSE "sleep"]
    /\ UNCHANGED <<mainPc, pageChannel, currentPage, sellerInfoList,
                   totalContacts, appendTmp, allSellerInfo, writes, proc, appended>>
    /\ UNCHANGED <<sessVars, runVars>>
    /\ UNCHANGED notConc

\* WorkerDoubleCheck without the comparison of lengths: the files are
\* written whatever the aggregate holds by now.
WorkerDoubleCheck_NoCheck(w) ==
    /\ proc = "running" /\ wpc[w] = "doubleCheck"
    /\ writes' = Append(writes, Write("periodic", allSellerInfo))
    /\ mu' = Free
    /\ wpc' = [wpc EXCEPT ![w] = "sleep"]
    /\ UNCHANGED <<mainPc, pageChannel, currentPage, sellerInfoList,
                   totalContacts, appendTmp, allSellerInfo, proc, appended>>
    /\ UNCHANGED <<sessVars, runVars>>
    /\ UNCHANGED notConc

\* if len(allSellerInfo) == totalContacts { exportToCSV; exportToJSON };
\* mu.Unlock()
WorkerDoubleCheck(w) ==
    /\ proc = "running" /\ wpc[w] = "doubleCheck"
    /\ writes' = IF allSellerInfo = totalContacts[w]
                 THEN Append(writes, Write("periodic", allSellerInfo))
                 ELSE writes
    /\ mu' = Free
    /\ wpc' = [wpc EXCEPT ![w] = "sleep"]
    /\ UNCHANGED <<mainPc, pageChannel, currentPage, sellerInfoList,
                   totalContacts, appendTmp, allSellerInfo, proc, appended>>
    /\ UNCHANGED <<sessVars, runVars>>
    /\ UNCHANGED notConc

\* time.Sleep(1..2 s)
WorkerSleep(w) ==
    /\ proc = "running" /\ wpc[w] = "sleep"
    /\ wpc' = [wpc EXCEPT ![w] = "dequeue"]
    /\ UNCHANGED <<mainPc, pageChannel, currentPage, sellerInfoList,
                   totalContacts, appendTmp, mu, allSellerInfo, writes, proc, appended>>
    /\ UNCHANGED <<sessVars, runVars>>
    /\ UNCHANGED notConc

\* wg.Wait(); mu.Lock()
MainWait ==
    /\ proc = "running" /\ mainPc = "wait"
    /\ \A w \in Workers : wpc[w] = "done"
    /\ mu = Free
    /\ mu' = HeldByMain
    /\ mainPc' = "export"
    /\ UNCHANGED <<wpc, pageChannel, currentPage, sellerInfoList, totalContacts,
                   appendTmp, allSellerInfo, writes, proc, appended>>
    /\ UNCHANGED <<sessVars, runVars>>
    /\ UNCHANGED notConc

\* The loop that ends main: CloseWorkerBrowserSession(i) for i = 1 ..
\* concurrency, applied to the registry s and the close counters c.
RECURSIVE CloseAll(_, _, _)
CloseAll(s, c, i) ==
    IF i > concurrency THEN [sessions |-> s, closes |-> c]
    ELSE LET r == CloseSession(s, c, i) IN CloseAll(r.sessions, r.closes, i + 1)

\* Final export under mu, mu.Unlock(), the CloseWorkerBrowserSession loop.
MainExport ==
    /\ proc = "running" /\ mainPc = "export"
    /\ writes' = IF allSellerInfo > 0
                 THEN Append(writes, Write("final", allSellerInfo))
                 ELSE writes
    /\ mu' = Free
    /\ LET r == CloseAll(workerSessions, browserCloses, 1) IN
         /\ workerSessions' = r.sessions
         /\ browserCloses' = r.closes
    /\ mainPc' = "deferred"
    /\ UNCHANGED <<wpc, pageChannel, currentPage, sellerInfoList, totalContacts,
                   appendTmp, allSellerInfo, proc, appended>>
    /\ UNCHANGED <<launches, workerSessionMutex, sessionMutex, session,
                   established, runVars>>
    /\ UNCHANGED notConc

\* A panic in main while it holds mu for the final export: the deferred
\* function runs with mu still locked.
MainExportPanic ==
    /\ proc = "running" /\ mainPc = "export"
    /\ mainPc' = "deferred"
    /\ UNCHANGED <<wpc, pageChannel, currentPage, sellerInfoList, totalContacts,
                   appendTmp, mu, allSellerInfo, writes, proc, appended>>
    /\ UNCHANGED <<sessVars, runVars>>
    /\ UNCHANGED notConc

\* The deferred function of main: mu.Lock(); emergency save if
\* len(allSellerInfo) > 0; mu.Unlock(); the process exits.
MainDeferred ==
    /\ proc = "running" /\ mainPc = "deferred"
    /\ mu = Free
    /\ writes' = IF allSellerInfo > 0
                 THEN Append(writes, Write("emergency", allSellerInfo))
                 ELSE writes
    /\ mainPc' = "returned"
    /\ proc' = "exited"
    /\ UNCHANGED <<wpc, pageChannel, currentPage, sellerInfoList, totalContacts,
                   appendTmp, mu, allSellerInfo, appended>>
    /\ UNCHANGED <<sessVars, runVars>>
    /\ UNCHANGED notConc

\* mu.Lock() in the deferred function while main itself holds mu: every
\* goroutine is asleep and the runtime ends the process.
MainDeferredDeadlock ==
    /\ proc = "running" /\ mainPc = "deferred"
    /\ mu = HeldByMain
    /\ proc' = "deadlock"
    /\ UNCHANGED <<mainPc, wpc, pageChannel, currentPage, sellerInfoList,
                   totalContacts, appendTmp, mu, allSellerInfo, writes, appended>>
    /\ UNCHANGED <<sessVars, runVars>>
    /\ UNCHANGED notConc

\* Runs explored: the page range startPage..endPage over pages of any
\* yield, and the longer range startPage..longEndPage over a site that
\* serves no listing.
ConcRuns ==
    \/ maxPages = endPage /\ siteYields = Yields
    \/ maxPages = longEndPage /\ siteYields = {0}

\* main up to the creation of pageChannel
ConcStart ==
    /\ ConcRuns
    /\ mainPc = "seed"
    /\ wpc = [w \in Workers |-> "unborn"]
    /\ pageChannel = <<>>
    /\ currentPage = [w \in Workers |-> 0]
    /\ sellerInfoList = [w \in Workers |-> 0]
    /\ totalContacts = [w \in Workers |-> 0]
    /\ appendTmp = [w \in Workers |-> 0]
    /\ mu = Free
    /\ allSellerInfo = 0
    /\ writes = <<>>
    /\ proc = "running"
    /\ appended = 0
    /\ workerSessions = [w \in Workers |-> "none"]
    /\ launches = [w \in Workers |-> 0]
    /\ browserCloses = [w \in Workers |-> 0]
    /\ workerSessionMutex = Free
    /\ sessionMutex = [w \in Workers |-> Free]
    /\ session = [w \in Workers |-> 0]
    /\ established = {}
    /\ dequeueCount = [p \in startPage..maxPages |-> 0]

ConcIdle ==
    /\ mainPc = "idle"
    /\ wpc = <<>>
    /\ pageChannel = <<>>
    /\ currentPage = <<>>
    /\ sellerInfoList = <<>>
    /\ totalContacts = <<>>
    /\ appendTmp = <<>>
    /\ mu = Free
    /\ allSellerInfo = 0
    /\ writes = <<>>
    /\ proc = "idle"
    /\ appended = 0
    /\ workerSessions = <<>>
    /\ launches = <<>>
    /\ browserCloses = <<>>
    /\ workerSessionMutex = Free
    /\ sessionMutex = <<>>
    /\ session = <<>>
    /\ established = {}
    /\ maxPages = 0
    /\ siteYields = {}
    /\ dequeueCount = <<>>

\* ------------------------------------------------------------------------
\* Sequential mains: the dynamic loop ("dynamic") and the fixed page range
\* ("fixed")
\* ------------------------------------------------------------------------

SeqYields == {0, 3}

SeqStartPage == IF seqVariant = "dynamic" THEN dynStartPage ELSE fixStartPage

\* maxPages of the run: 400 (dynamic) and 200 (fixed) in the source, here
\* seqRange pages from the start page.
SeqMaxPages == SeqStartPage + seqRange - 1

\* Page outcomes: the screenshot failed; the screenshot succeeded and OCR
\* failed; the screenshot succeeded and ExtractSellerInfo returned n records.
SeqOutcomes ==
    {[kind |-> "shotFailed", n |-> 0], [kind |-> "ocrFailed", n |-> 0]}
    \cup {[kind |-> IF n = 0 THEN "zero" ELSE "records", n |-> n] : n \in SeqYields}

\* DynIteration with the ceiling test written > instead of >=.
DynIteration_LateBreak ==
    /\ seqProc = "running" /\ seqVariant = "dynamic" /\ seqPc = "fetch"
    /\ \E o \in SeqOutcomes :
         /\ seqLast' = o.kind
         /\ zeroRun' = IF o.kind = "zero" THEN zeroRun + 1 ELSE 0
         /\ IF o.kind = "shotFailed"
            THEN /\ consecutiveFailures' = consecutiveFailures + 1
                 /\ IF consecutiveFailures + 1 > maxConsecutiveFailures
                    THEN /\ seqPc' = "export"
                         /\ UNCHANGED seqCurrentPage
                    ELSE /\ seqPc' = "fetch"
                         /\ seqCurrentPage' = seqCurrentPage + 1
                 /\ UNCHANGED seqAllSellerInfo
            ELSE IF o.kind = "ocrFailed"
            THEN /\ consecutiveFailures' = 0
                 /\ seqPc' = "sleep"
                 /\ UNCHANGED <<seqCurrentPage, seqAllSellerInfo>>
            ELSE IF o.n > 0
            THEN /\ consecutiveFailures' = 0
                 /\ seqAllSellerInfo' = seqAllSellerInfo + o.n
                 /\ seqPc' = "sleep"
                 /\ UNCHANGED seqCurrentPage
            ELSE \* the counter was reset to 0 by the successful screenshot
                 /\ consecutiveFailures' = 0 + 1
                 /\ seqPc' = IF 0 + 1 >= maxConsecutiveFailures THEN "export" ELSE "sleep"
                 /\ UNCHANGED <<seqCurrentPage, seqAllSellerInfo>>
    /\ UNCHANGED <<seqVariant, seqWrites, seqProc>>
    /\ UNCHANGED notSeq

\* One iteration of the dynamic loop up to its sleep, continue or break.
DynIteration ==
    /\ seqProc = "running" /\ seqVariant = "dynamic" /\ seqPc = "fetch"
    /\ \E o \in SeqOutcomes :
         /\ seqLast' = o.kind
         /\ zeroRun' = IF o.kind = "zero" THEN zeroRun + 1 ELSE 0
         /\ IF o.kind = "shotFailed"
            THEN /\ consecutiveFailures' = consecutiveFailures + 1
                 /\ IF consecutiveFailures + 1 >= maxConsecutiveFailures
                    THEN /\ seqPc' = "export"
                         /\ UNCHANGED seqCurrentPage
                    ELSE /\ seqPc' = "fetch"
                         /\ seqCurrentPage' = seqCurrentPage + 1
                 /\ UNCHANGED seqAllSellerInfo
            ELSE IF o.kind = "ocrFailed"
            THEN /\ consecutiveFailures' = 0
                 /\ seqPc' = "sleep"
                 /\ UNCHANGED <<seqCurrentPage, seqAllSellerInfo>>
            ELSE IF o.n > 0
            THEN /\ consecutiveFailures' = 0
                 /\ seqAllSellerInfo' = seqAllSellerInfo + o.n
                 /\ seqPc' = "sleep"
                 /\ UNCHANGED seqCurrentPage
            ELSE \* the counter was reset to 0 by the successful screenshot
                 /\ consecutiveFailures' = 0 + 1
                 /\ seqPc' = IF 0 + 1 >= maxConsecutiveFailures THEN "export" ELSE "sleep"
                 /\ UNCHANGED <<seqCurrentPage, seqAllSellerInfo>>
    /\ UNCHANGED <<seqVariant, seqWrites, seqProc>>
    /\ UNCHANGED notSeq

\* time.Sleep(3 s); currentPage++; if currentPage > maxPages { break }
DynSleep ==
    /\ seqProc = "running" /\ seqVariant = "dynamic" /\ seqPc = "sleep"
    /\ seqCurrentPage' = seqCurrentPage + 1
    /\ seqPc' = IF seqCurrentPage + 1 > SeqMaxPages THEN "export" ELSE "fetch"
    /\ UNCHANGED <<seqVariant, consecutiveFailures, seqAllSellerInfo, seqWrites,
                   seqProc, seqLast, zeroRun>>
    /\ UNCHANGED notSeq

\* InitializeBrowserSession; on error log.Fatalf ends the process without
\* running the deferred function.
FixInitSession ==
    /\ seqProc = "running" /\ seqVariant = "fixed" /\ seqPc = "init"
    /\ \E ok \in BOOLEAN :
         IF ok
         THEN /\ seqPc' = IF seqCurrentPage <= SeqMaxPages THEN "fetch" ELSE "export"
              /\ UNCHANGED seqProc
         ELSE /\ seqProc' = "fatal"
              /\ UNCHANGED seqPc
    /\ UNCHANGED <<seqVariant, seqCurrentPage, consecutiveFailures,
                   seqAllSellerInfo, seqWrites, seqLast, zeroRun>>
    /\ UNCHANGED notSeq

\* currentPage++ and the loop test currentPage <= maxPages
FixAdvance(page) == IF page + 1 <= SeqMaxPages THEN "fetch" ELSE "export"

\* One iteration of the fixed-range loop up to its sleep, continue or break.
FixIteration ==
    /\ seqProc = "running" /\ seqVariant = "fixed" /\ seqPc = "fetch"
    /\ \E o \in SeqOutcomes :
         /\ seqLast' = o.kind
         /\ zeroRun' = IF o.kind = "zero" THEN zeroRun + 1 ELSE 0
         /\ IF o.kind = "shotFailed"
            THEN /\ consecutiveFailures' = consecutiveFailures + 1
                 /\ IF consecutiveFailures + 1 >= maxConsecutiveFailures
                    THEN /\ seqPc' = "export"
                         /\ UNCHANGED seqCurrentPage
                    ELSE /\ seqPc' = FixAdvance(seqCurrentPage)
                         /\ seqCurrentPage' = seqCurrentPage + 1
                 /\ UNCHANGED seqAllSellerInfo
            ELSE IF o.kind = "ocrFailed"
            THEN /\ consecutiveFailures' = 0
                 /\ seqPc' = FixAdvance(seqCurrentPage)
                 /\ seqCurrentPage' = seqCurrentPage + 1
                 /\ UNCHANGED seqAllSellerInfo
            ELSE /\ consecutiveFailures' = 0
                 /\ seqAllSellerInfo' = seqAllSellerInfo + o.n
                 /\ seqPc' = "sleep"
                 /\ UNCHANGED seqCurrentPage
    /\ UNCHANGED <<seqVariant, seqWrites, seqProc>>
    /\ UNCHANGED notSeq

\* time.Sleep(3..8 s), then currentPage++ and the loop test
FixSleep ==
    /\ seqProc = "running" /\ seqVariant = "fixed" /\ seqPc = "sleep"
    /\ seqCurrentPage' = seqCurrentPage + 1
    /\ seqPc' = FixAdvance(seqCurrentPage)
    /\ UNCHANGED <<seqVariant, consecutiveFailures, seqAllSellerInfo, seqWrites,
                   seqProc, seqLast, zeroRun>>
    /\ UNCHANGED notSeq

\* End of main: export to CSV and JSON if anything was collected, then
\* CloseBrowserSession and return.
SeqExport ==
    /\ seqProc = "running" /\ seqPc = "export"
    /\ seqWrites' = IF seqAllSellerInfo > 0
                    THEN Append(seqWrites, Write("final", seqAllSellerInfo))
                    ELSE seqWrites
    /\ seqPc' = "deferred"
    /\ UNCHANGED <<seqVariant, seqCurrentPage, consecutiveFailures,
                   seqAllSellerInfo, seqProc, seqLast, zeroRun>>
    /\ UNCHANGED notSeq

\* The deferred function: emergency save if anything was collected.
SeqDeferred ==
    /\ seqProc = "running" /\ seqPc = "deferred"
    /\ seqWrites' = IF seqAllSellerInfo > 0
                    THEN Append(seqWrites, Write("emergency", seqAllSellerInfo))
                    ELSE seqWrites
    /\ seqPc' = "returned"
    /\ seqProc' = "exited"
    /\ UNCHANGED <<seqVariant, seqCurrentPage, consecutiveFailures,
                   seqAllSellerInfo, seqLast, zeroRun>>
    /\ UNCHANGED notSeq

\* main up to the first statement after the defer
SeqStart ==
    /\ seqVariant \in {"dynamic", "fixed"}
    /\ seqPc = IF seqVariant = "dynamic" THEN "fetch" ELSE "init"
    /\ seqCurrentPage = SeqStartPage
    /\ consecutiveFailures = 0
    /\ seqAllSellerInfo = 0
    /\ seqWrites = <<>>
    /\ seqProc = "running"
    /\ seqLast = "none"
    /\ zeroRun = 0

SeqIdle ==
    /\ seqVariant = "idle"
    /\ seqPc = "idle"
    /\ seqCurrentPage = 0
    /\ consecutiveFailures = 0
    /\ seqAllSellerInfo = 0
    /\ seqWrites = <<>>
    /\ seqProc = "idle"
    /\ seqLast = "none"
    /\ zeroRun = 0

\* ------------------------------------------------------------------------
\* Page fetch: TakeScreenshotPlaywright ("global", the persistent session
\* of the sequential mains) and TakeScreenshotPlaywrightWorker ("worker"),
\* with the caller's loop around them
\* ------------------------------------------------------------------------

\* workerID of the worker whose fetches are followed
FetchWorker == 1

\* banSelectors of TakeScreenshotPlaywright
BanSelectors ==
    {"text=Access denied", "text=banned your IP address", "text=Error 1007",
     "text=Error 1006", "text=Ray ID:", ".cf-error-title", "#cf-error-details"}

\* A loaded page, as far as the fetch looks at it: the ban selectors that
\* match it, and whether a CAPTCHA signature matches it (one of
\* captchaSelectors for the global session, one of captchaKeywords in the
\* page source for a worker session).
Contents == [ban : SUBSET BanSelectors, captcha : BOOLEAN]

NoContent == [ban |-> {}, captcha |-> FALSE]

\* strings.Contains(content, "banned your IP address") ||
\* strings.Contains(content, "Error 1007"): the page text holds one of the
\* two strings exactly when the text selector for it matches.
ContentConfirmsBan(c) ==
    c.ban \cap {"text=banned your IP address", "text=Error 1007"} # {}

\* The ban loop of TakeScreenshotPlaywright: some selector matches and the
\* content confirms the ban.
BanDetected(c) == c.ban # {} /\ ContentConfirmsBan(c)

\* What the environment gives a step of the fetch
Outcome(kind, ok, c) == [kind |-> kind, ok |-> ok, content |-> c]

MissedPage(reason) == [worker |-> FetchWorker, page |-> fPage, reason |-> reason]

\* The caller takes the next page and calls the fetch.  The global fetch
\* initialises the persistent session if there is none (the session keeps
\* the proxy it was launched with); the worker fetch returns "" without a
\* session registered under its id.
FetchBegin ==
    /\ fPc = "idle"
    /\ fPage' = fPage + 1
    /\ fRetry' = 0
    /\ fContent' = NoContent
    /\ fCaptcha' = [present |-> FALSE, waits |-> 0, still |-> FALSE]
    /\ fBanned' = FALSE
    /\ IF fSession = "active"
       THEN /\ fPc' = "nav"
            /\ fResult' = ""
            /\ fTrace' = <<>>
            /\ fOutcomes' = <<>>
            /\ UNCHANGED <<fSession, fProxy>>
       ELSE IF fVariant = "worker"
       THEN /\ fPc' = "returned"
            /\ fResult' = ""
            /\ fTrace' = <<>>
            /\ fOutcomes' = <<>>
            /\ UNCHANGED <<fSession, fProxy>>
       ELSE \E ok \in BOOLEAN, proxy \in ProxyNames \cup {NoProxy} :
            /\ fSession' = IF ok THEN "active" ELSE "none"
            /\ fProxy' = IF ok THEN proxy ELSE NoProxy
            /\ fPc' = IF ok THEN "nav" ELSE "returned"
            /\ fResult' = ""
            /\ fTrace' = <<"InitializeBrowserSession">>
            /\ fOutcomes' = <<Outcome("init", ok, NoContent)>>
    /\ UNCHANGED <<fVariant, missedPages, handed, fPrev>>
    /\ UNCHANGED notFetch

\* FetchNavigate with the loop test written retry <= maxRetries.
FetchNavigate_FourthAttempt ==
    /\ fPc = "nav"
    /\ \E ok \in BOOLEAN :
         /\ fRetry' = fRetry + 1
         /\ fOutcomes' = Append(fOutcomes, Outcome("nav", ok, NoContent))
         /\ IF ok
            THEN /\ fPc' = "detect"
                 /\ fTrace' = Append(fTrace, "Goto")
                 /\ UNCHANGED <<missedPages, fResult>>
            ELSE IF fRetry + 1 <= navMaxRetries
            THEN /\ fPc' = "nav"
                 /\ fTrace' = Append(fTrace, "Goto")
                 /\ UNCHANGED <<missedPages, fResult>>
            ELSE /\ fPc' = "returned"
                 /\ fResult' = ""
                 /\ IF fVariant = "worker"
                    THEN /\ missedPages' = Append(missedPages, MissedPage("NAVIGATION_FAILED"))
                         /\ fTrace' = fTrace \o <<"Goto", "logMissedPage">>
                    ELSE /\ fTrace' = Append(fTrace, "Goto")
                         /\ UNCHANGED missedPages
    /\ UNCHANGED <<fVariant, fPage, fSession, fProxy, fContent, fCaptcha,
                   fBanned, handed, fPrev>>
    /\ UNCHANGED notFetch

\* One pass of the navigation loop: for retry := 0; retry < maxRetries;
\* retry++ { Goto; if navErr == nil { break } }, and after the last failed
\* pass the return of "" (the worker fetch logs the page as missed first).
FetchNavigate ==
    /\ fPc = "nav"
    /\ \E ok \in BOOLEAN :
         /\ fRetry' = fRetry + 1
         /\ fOutcomes' = Append(fOutcomes, Outcome("nav", ok, NoContent))
         /\ IF ok
            THEN /\ fPc' = "detect"
                 /\ fTrace' = Append(fTrace, "Goto")
                 /\ UNCHANGED <<missedPages, fResult>>
            ELSE IF fRetry + 1 < navMaxRetries
            THEN /\ fPc' = "nav"
                 /\ fTrace' = Append(fTrace, "Goto")
                 /\ UNCHANGED <<missedPages, fResult>>
            ELSE /\ fPc' = "returned"
                 /\ fResult' = ""
                 /\ IF fVariant = "worker"
                    THEN /\ missedPages' = Append(missedPages, MissedPage("NAVIGATION_FAILED"))
                         /\ fTrace' = fTrace \o <<"Goto", "logMissedPage">>
                    ELSE /\ fTrace' = Append(fTrace, "Goto")
                         /\ UNCHANGED missedPages
    /\ UNCHANGED <<fVariant, fPage, fSession, fProxy, fContent, fCaptcha,
                   fBanned, handed, fPrev>>
    /\ UNCHANGED notFetch

\* After the page has loaded.  Global fetch: the ban selectors, then the
\* CAPTCHA selectors; a detected ban returns "" and nothing else is done
\* about the proxy.  Worker fetch: DetectCAPTCHAInPageSource only.
FetchDetect ==
    /\ fPc = "detect"
    /\ \E c \in Contents :
         /\ fContent' = c
         /\ fOutcomes' = Append(fOutcomes, Outcome("page", TRUE, c))
         /\ IF fVariant = "global" /\ BanDetected(c)
            THEN /\ fBanned' = TRUE
                 /\ fPc' = "returned"
                 /\ fTrace' = Append(fTrace, "Content")
                 /\ UNCHANGED fCaptcha
            ELSE /\ fBanned' = FALSE
                 /\ fCaptcha' = [fCaptcha EXCEPT !.present = c.captcha]
                 /\ fPc' = IF c.captcha THEN "captchaWait" ELSE "shot"
                 /\ fTrace' = Append(fTrace, "Content")
    /\ UNCHANGED <<fVariant, fPage, fRetry, fSession, fProxy, fResult,
                   missedPages, handed, fPrev>>
    /\ UNCHANGED notFetch

\* The CAPTCHA branch.  Global fetch: sleep 60 s, look at the CAPTCHA
\* selectors again, log the result and go on to the screenshot either way.
\* Worker fetch: sleep 10 s, tryAutoClickHCaptcha; if the click failed the
\* page is logged as missed (CAPTCHA_MANUAL_SOLVE_REQUIRED); the page is
\* not looked at again and the screenshot follows either way.
FetchCaptchaWait ==
    /\ fPc = "captchaWait"
    /\ \E still \in BOOLEAN, autoClick \in BOOLEAN :
         /\ fVariant = "global" => autoClick
         /\ fCaptcha' = [fCaptcha EXCEPT !.waits = @ + 1, !.still = still]
         /\ fOutcomes' = Append(fOutcomes,
                Outcome("captcha", autoClick, [ban |-> {}, captcha |-> still]))
         /\ IF fVariant = "worker" /\ ~autoClick
            THEN /\ missedPages' = Append(missedPages,
                                          MissedPage("CAPTCHA_MANUAL_SOLVE_REQUIRED"))
                 /\ fTrace' = fTrace \o <<"Sleep", "logMissedPage">>
            ELSE /\ fTrace' = Append(fTrace, "Sleep")
                 /\ UNCHANGED missedPages
    /\ fPc' = "shot"
    /\ UNCHANGED <<fVariant, fPage, fRetry, fSession, fProxy, fContent,
                   fBanned, fResult, handed, fPrev>>
    /\ UNCHANGED notFetch

\* os.MkdirAll and Page.Screenshot: an error returns "", otherwise the path
\* of the image is returned.
FetchScreenshot ==
    /\ fPc = "shot"
    /\ \E ok \in BOOLEAN :
         /\ fResult' = IF ok THEN "screenshot.png" ELSE ""
         /\ fOutcomes' = Append(fOutcomes, Outcome("screenshot", ok, NoContent))
    /\ fTrace' = Append(fTrace, "Screenshot")
    /\ fPc' = "returned"
    /\ UNCHANGED <<fVariant, fPage, fRetry, fSession, fProxy, fContent,
                   fCaptcha, fBanned, missedPages, handed, fPrev>>
    /\ UNCHANGED notFetch

\* The caller: imagePath == "" goes on to the next page (continue), any
\* other image is handed to OCR and extraction; then the next page.
FetchReturn ==
    /\ fPc = "returned"
    /\ handed' = IF fResult # "" THEN handed \cup {fPage} ELSE handed
    /\ fPrev' = [page |-> fPage, proxy |-> fProxy, banned |-> fBanned]
    /\ fPc' = IF fPage < FetchPages THEN "idle" ELSE "end"
    /\ UNCHANGED <<fVariant, fPage, fRetry, fSession, fProxy, fContent,
                   fCaptcha, fBanned, fResult, fTrace, fOutcomes, missedPages>>
    /\ UNCHANGED notFetch

\* Before the first page: no global session yet (it is initialised by the
\* first fetch); a worker fetches only after its session was registered.
FetchStart ==
    /\ fVariant \in {"global", "worker"}
    /\ fPc = "idle"
    /\ fPage = 0
    /\ fRetry = 0
    /\ fSession = IF fVariant = "global" THEN "none" ELSE "active"
    /\ fProxy = NoProxy
    /\ fContent = NoContent
    /\ fCaptcha = [present |-> FALSE, waits |-> 0, still |-> FALSE]
    /\ fBanned = FALSE
    /\ fResult = ""
    /\ fTrace = <<>>
    /\ fOutcomes = <<>>
    /\ missedPages = <<>>
    /\ handed = {}
    /\ fPrev = [page |-> 0, proxy |-> NoProxy, banned |-> FALSE]

FetchIdle ==
    /\ fVariant = "idle"
    /\ fPc = "off"
    /\ fPage = 0
    /\ fRetry = 0
    /\ fSession = "none"
    /\ fProxy = NoProxy
    /\ fContent = NoContent
    /\ fCaptcha = [present |-> FALSE, waits |-> 0, still |-> FALSE]
    /\ fBanned = FALSE
    /\ fResult = ""
    /\ fTrace = <<>>
    /\ fOutcomes = <<>>
    /\ missedPages = <<>>
    /\ handed = {}
    /\ fPrev = [page |-> 0, proxy |-> NoProxy, banned |-> FALSE]

\* ------------------------------------------------------------------------
\* Concurrent callers of one proxy manager
\* ------------------------------------------------------------------------

Callers == 1..PoolCallers

IdleCall == [pc |-> "idle", op |-> "none", arg |-> 0, idx |-> 0,
             attempts |-> 0, phase |-> 0, ret |-> -1]

MutexFree == [writer |-> 0, readers |-> {}]

\* A caller starts one call.  The methods of scraper.ProxyManager take no
\* lock; those of proxy.ProxyManager begin with pm.mutex.Lock() or RLock().
RaceCall(c) ==
    /\ calls[c].pc = "idle"
    /\ \/ /\ mgr = "scraper"
          /\ \/ calls' = [calls EXCEPT ![c] = [IdleCall EXCEPT
                            !.pc = "load", !.op = "GetNextProxy", !.phase = 1]]
             \/ \E i \in 0..(Len(proxies) - 1) :
                  calls' = [calls EXCEPT ![c] = [IdleCall EXCEPT
                            !.pc = "mfLoad", !.op = "MarkProxyFailed", !.arg = i]]
       \/ /\ mgr = "proxy"
          /\ \/ \E op \in {"GetNextProxy", "GetRandomProxy"} :
                  calls' = [calls EXCEPT ![c] = [IdleCall EXCEPT
                            !.pc = "acquire", !.op = op]]
             \/ \E i \in 0..(PxLen - 1) :
                  calls' = [calls EXCEPT ![c] = [IdleCall EXCEPT
                            !.pc = "acquire", !.op = "MarkProxyFailed", !.arg = i]]
    /\ UNCHANGED <<mgr, pmVars, pxVars, mutex>>
    /\ UNCHANGED notRace

\* scraper.GetNextProxy, the loop test and the read of pm.current in
\* pm.current = (pm.current + 1) % len(pm.proxies).  When the first loop is
\* over the second starts; when the second is over everything is reset and
\* a random endpoint is returned.
PmRaceLoad(c) ==
    /\ mgr = "scraper"
    /\ calls[c].pc = "load"
    /\ IF calls[c].attempts < Len(proxies)
       THEN /\ calls' = [calls EXCEPT ![c].idx = (current + 1) % Len(proxies),
                                      ![c].pc = "store"]
            /\ UNCHANGED <<current, retryCount, usedProxies>>
       ELSE IF calls[c].phase = 1
       THEN /\ calls' = [calls EXCEPT ![c].phase = 2, ![c].attempts = 0]
            /\ UNCHANGED <<current, retryCount, usedProxies>>
       ELSE \E randomIndex \in 0..(Len(proxies) - 1) :
            /\ retryCount' = EmptyMap
            /\ current' = randomIndex
            /\ usedProxies' = MapPut(EmptyMap, proxies[randomIndex + 1], now)
            /\ calls' = [calls EXCEPT ![c].ret = randomIndex, ![c].pc = "done"]
    /\ UNCHANGED <<mgr, proxies, now, pmLast, pmStreak, pmRun, pxVars, mutex>>
    /\ UNCHANGED notRace

\* The write of pm.current in the same statement
PmRaceStore(c) ==
    /\ mgr = "scraper"
    /\ calls[c].pc = "store"
    /\ current' = calls[c].idx
    /\ calls' = [calls EXCEPT ![c].pc = "test"]
    /\ UNCHANGED <<mgr, proxies, retryCount, usedProxies, now, pmLast, pmStreak,
                   pmRun, pxVars, mutex>>
    /\ UNCHANGED notRace

\* proxy := pm.proxies[pm.current] and the tests on it
PmRaceTest(c) ==
    /\ mgr = "scraper"
    /\ calls[c].pc = "test"
    /\ LET p == proxies[current + 1] IN
       IF \/ IsBanned(retryCount, p)
          \/ calls[c].phase = 1 /\ RecentlyUsed(usedProxies, now, p)
       THEN calls' = [calls EXCEPT ![c].attempts = @ + 1, ![c].pc = "load"]
       ELSE calls' = [calls EXCEPT ![c].idx = current, ![c].pc = "use"]
    /\ UNCHANGED <<mgr, pmVars, pxVars, mutex>>
    /\ UNCHANGED notRace

\* pm.usedProxies[proxy] = now; return proxy
PmRaceUse(c) ==
    /\ mgr = "scraper"
    /\ calls[c].pc = "use"
    /\ usedProxies' = MapPut(usedProxies, proxies[calls[c].idx + 1], now)
    /\ calls' = [calls EXCEPT ![c].ret = calls[c].idx, ![c].pc = "done"]
    /\ UNCHANGED <<mgr, proxies, current, retryCount, now, pmLast, pmStreak,
                   pmRun, pxVars, mutex>>
    /\ UNCHANGED notRace

\* scraper.MarkProxyFailed, the read of pm.retryCount[proxy]++
PmRaceMarkLoad(c) ==
    /\ mgr = "scraper"
    /\ calls[c].pc = "mfLoad"
    /\ calls' = [calls EXCEPT ![c].idx = RC(retryCount, proxies[calls[c].arg + 1]),
                              ![c].pc = "mfStore"]
    /\ UNCHANGED <<mgr, pmVars, pxVars, mutex>>
    /\ UNCHANGED notRace

\* and its write
PmRaceMarkStore(c) ==
    /\ mgr = "scraper"
    /\ calls[c].pc = "mfStore"
    /\ retryCount' = MapPut(retryCount, proxies[calls[c].arg + 1], calls[c].idx + 1)
    /\ calls' = [calls EXCEPT ![c].pc = "done"]
    /\ UNCHANGED <<mgr, proxies, current, usedProxies, now, pmLast, pmStreak,
                   pmRun, pxVars, mutex>>
    /\ UNCHANGED notRace

\* pm.mutex.Lock() waits for the writer and all readers to leave;
\* pm.mutex.RLock() (GetRandomProxy) waits for the writer only.
PxRaceAcquire(c) ==
    /\ mgr = "proxy"
    /\ calls[c].pc = "acquire"
    /\ mutex.writer = 0
    /\ IF calls[c].op = "GetRandomProxy"
       THEN mutex' = [mutex EXCEPT !.readers = @ \cup {c}]
       ELSE /\ mutex.readers = {}
            /\ mutex' = [mutex EXCEPT !.writer = c]
    /\ calls' = [calls EXCEPT ![c].pc = "body"]
    /\ UNCHANGED <<mgr, pmVars, pxVars>>
    /\ UNCHANGED notRace

\* The body of the method up to its return, except that GetRandomProxy
\* stops before its write of selectedProxy.LastUsed.
PxRaceBody(c) ==
    /\ mgr = "proxy"
    /\ calls[c].pc = "body"
    /\ IF calls[c].op = "GetNextProxy"
       THEN IF PxLen = 0
            THEN /\ calls' = [calls EXCEPT ![c].pc = "release"]
                 /\ UNCHANGED <<pxArrays, currentIdx>>
            ELSE LET r == PxScan(currentIdx, currentIdx) IN
                 /\ currentIdx' = r.cur
                 /\ pxArrays' = IF r.found
                                THEN Store(PxPtr(r.idx), [PxAt(r.idx) EXCEPT !.LastUsed = "set"])
                                ELSE pxArrays
                 /\ calls' = [calls EXCEPT ![c].ret = IF r.found THEN r.idx ELSE -1,
                                           ![c].pc = "release"]
       ELSE IF calls[c].op = "MarkProxyFailed"
       THEN LET ptr == PxPtr(calls[c].arg)
                n == Deref(ptr).FailCount + 1
            IN /\ pxArrays' = Store(ptr, [Deref(ptr) EXCEPT
                                            !.FailCount = n,
                                            !.Active = IF n >= maxFails THEN FALSE ELSE @])
               /\ calls' = [calls EXCEPT ![c].pc = "release"]
               /\ UNCHANGED currentIdx
       ELSE LET activeProxies == {i \in 0..(PxLen - 1) : PxAt(i).Active} IN
            /\ IF activeProxies = {}
               THEN calls' = [calls EXCEPT ![c].pc = "release"]
               ELSE \E i \in activeProxies :
                      calls' = [calls EXCEPT ![c].idx = i, ![c].pc = "write"]
            /\ UNCHANGED <<pxArrays, currentIdx>>
    /\ UNCHANGED <<mgr, pmVars, pxSlice, pxHeld, pxLast, pxStreak, pxRun, mutex>>
    /\ UNCHANGED notRace

\* GetRandomProxy: selectedProxy.LastUsed = time.Now(), with the read lock
\* held.
PxRaceWrite(c) ==
    /\ mgr = "proxy"
    /\ calls[c].pc = "write"
    /\ pxArrays' = Store(PxPtr(calls[c].idx),
                         [PxAt(calls[c].idx) EXCEPT !.LastUsed = "set"])
    /\ calls' = [calls EXCEPT ![c].ret = calls[c].idx, ![c].pc = "release"]
    /\ UNCHANGED <<mgr, pmVars, pxSlice, currentIdx, pxHeld, pxLast, pxStreak,
                   pxRun, mutex>>
    /\ UNCHANGED notRace

\* The deferred Unlock / RUnlock
PxRaceRelease(c) ==
    /\ mgr = "proxy"
    /\ calls[c].pc = "release"
    /\ mutex' = IF mutex.writer = c THEN [mutex EXCEPT !.writer = 0]
                ELSE [mutex EXCEPT !.readers = @ \ {c}]
    /\ calls' = [calls EXCEPT ![c].pc = "done"]
    /\ UNCHANGED <<mgr, pmVars, pxVars>>
    /\ UNCHANGED notRace

\* No call in progress
RaceIdle ==
    /\ calls = [c \in Callers |-> IdleCall]
    /\ mutex = MutexFree

\* ------------------------------------------------------------------------
\* ocrworker.ExtractSellerInfo and the append of its result
\* ------------------------------------------------------------------------

FieldValues == <<"v1", "v2", "v3", "v4">>

\* What follows "Seller:" on a line of the OCR text, trimmed
SellerTexts == {"", "Email Seller", "ACME"}

RECURSIVE SeqsUpTo(_, _)
SeqsUpTo(S, n) ==
    IF n = 0 THEN {<<>>}
    ELSE LET shorter == SeqsUpTo(S, n - 1)
         IN shorter \cup {Append(q, x) : q \in {r \in shorter : Len(r) = n - 1}, x \in S}

\* What the regular expressions and the line scan find in one OCR text: the
\* number of matches of each expression, and the seller lines.
OcrTexts ==
    [phones : 0..MaxMatches, emails : 0..MaxMatches, locations : 0..MaxMatches,
     sellerLines : SeqsUpTo(SellerTexts, MaxMatches),
     serials : 0..MaxMatches, auctionDates : 0..MaxMatches,
     years : 0..MaxMatches, makes : 0..MaxMatches, models : 0..MaxMatches,
     prices : 0..MaxMatches]

NoText ==
    [phones |-> 0, emails |-> 0, locations |-> 0, sellerLines |-> <<>>,
     serials |-> 0, auctionDates |-> 0, years |-> 0, makes |-> 0, models |-> 0,
     prices |-> 0]

\* The seller loop: a line's text is kept unless it is empty or "Email Seller".
AllSellers(text) ==
    SelectSeq(text.sellerLines, LAMBDA seller : seller # "" /\ seller # "Email Seller")

MaxOf(S) == CHOOSE m \in S : \A x \in S : x <= m

MaxItems(text) ==
    MaxOf({text.phones, text.locations, Len(AllSellers(text)), text.years,
           text.makes, text.models, text.prices})

\* sellerInfo of iteration i (0-based); reading a key that was not set
\* gives "".
SellerInfo(text, i) ==
    LET at(n) == IF i < n THEN FieldValues[i + 1] ELSE ""
    IN [url           |-> "pageURL",
        phone         |-> at(text.phones),
        email         |-> at(text.emails),
        location      |-> at(text.locations),
        seller        |-> IF i < Len(AllSellers(text)) THEN AllSellers(text)[i + 1] ELSE "",
        serial_number |-> at(text.serials),
        auction_date  |-> at(text.auctionDates),
        year          |-> at(text.years),
        make          |-> at(text.makes),
        model         |-> at(text.models),
        price         |-> at(text.prices)]

\* ExtractSellerInfo appending every sellerInfo it built.
ExtractSellerInfo_NoFilter(text) ==
    [i \in 1..MaxItems(text) |-> SellerInfo(text, i - 1)]

ExtractSellerInfo(text) ==
    SelectSeq([i \in 1..MaxItems(text) |-> SellerInfo(text, i - 1)],
              LAMBDA sellerInfo : sellerInfo.phone # "" \/ sellerInfo.seller # "")

\* text, err := ExtractTextFromImage(imagePath) succeeded;
\* sellerInfoList := ocrworker.ExtractSellerInfo(text, targetURL)
ExtractStep ==
    /\ exPc = "text"
    /\ exSellerInfoList' = ExtractSellerInfo(exText)
    /\ exPc' = "extracted"
    /\ UNCHANGED <<exText, exAllSellerInfo>>
    /\ UNCHANGED notExtract

\* allSellerInfo = append(allSellerInfo, sellerInfoList...)
AppendStep ==
    /\ exPc = "extracted"
    /\ exAllSellerInfo' = exAllSellerInfo \o exSellerInfoList
    /\ exPc' = "appended"
    /\ UNCHANGED <<exText, exSellerInfoList>>
    /\ UNCHANGED notExtract

ExtractStart ==
    /\ exText \in OcrTexts
    /\ exSellerInfoList = <<>>
    /\ exAllSellerInfo = <<>>
    /\ exPc = "text"

ExtractIdle ==
    /\ exText = NoText
    /\ exSellerInfoList = <<>>
    /\ exAllSellerInfo = <<>>
    /\ exPc = "off"

\* ------------------------------------------------------------------------
\* Seeding of the page channel by the concurrent main, for any flags
\* ------------------------------------------------------------------------

\* Values of -start-page and -end-page with start <= end
SeedFlags ==
    {f \in [start : (0 - MaxFlag)..MaxFlag, end : (0 - MaxFlag)..MaxFlag] :
       f.start <= f.end}

\* pageChannel := make(chan int, maxPages): a negative size panics.
SeedMake ==
    /\ seedPc = "make"
    /\ IF seedFlags.end < 0
       THEN seedPc' = "panic" /\ UNCHANGED <<seedCap, seedPage>>
       ELSE /\ seedCap' = seedFlags.end
            /\ seedPage' = seedFlags.start
            /\ seedPc' = "send"
    /\ UNCHANGED <<seedFlags, seedChannel>>
    /\ UNCHANGED notSeed

\* pageChannel <- page with room in the buffer; page++
SeedSend ==
    /\ seedPc = "send"
    /\ seedPage <= seedFlags.end
    /\ Len(seedChannel) < seedCap
    /\ seedChannel' = Append(seedChannel, seedPage)
    /\ seedPage' = seedPage + 1
    /\ UNCHANGED <<seedFlags, seedCap, seedPc>>
    /\ UNCHANGED notSeed

\* pageChannel <- page with the buffer full: no worker has been started,
\* so no goroutine will ever receive and main stays in the send.
SeedBlock ==
    /\ seedPc = "send"
    /\ seedPage <= seedFlags.end
    /\ Len(seedChannel) >= seedCap
    /\ seedPc' = "blocked"
    /\ UNCHANGED <<seedFlags, seedCap, seedChannel, seedPage>>
    /\ UNCHANGED notSeed

\* The loop condition page <= maxPages fails; close(pageChannel)
SeedClose ==
    /\ seedPc = "send"
    /\ seedPage > seedFlags.end
    /\ seedPc' = "closed"
    /\ UNCHANGED <<seedFlags, seedCap, seedChannel, seedPage>>
    /\ UNCHANGED notSeed

SeedStart ==
    /\ seedFlags \in SeedFlags
    /\ seedCap = 0
    /\ seedChannel = <<>>
    /\ seedPage = 0
    /\ seedPc = "make"

SeedIdle ==
    /\ seedFlags = [start |-> 1, end |-> 1]
    /\ seedCap = 0
    /\ seedChannel = <<>>
    /\ seedPage = 0
    /\ seedPc = "off"

\* ------------------------------------------------------------------------
\* scraper.ProxyManager, the variant with one selection loop and a reset
\* ("cooldown"); it keeps its state in the fields of scraper.ProxyManager
\* ------------------------------------------------------------------------

CdCooldown == 30     \* seconds

CdRecentlyUsed(used, t, p) == p \in DOMAIN used /\ t - used[p] < CdCooldown

\* The loop of GetNextProxy: advance the cursor up to len(proxies) times,
\* skipping the endpoints used within the cooldown and those at the retry
\* limit.
RECURSIVE CdScan(_, _)
CdScan(cur, attempts) ==
    IF attempts >= Len(proxies)
    THEN [found |-> FALSE, cur |-> cur]
    ELSE LET c2 == (cur + 1) % Len(proxies)
             p  == proxies[c2 + 1]
         IN IF CdRecentlyUsed(usedProxies, now, p) THEN CdScan(c2, attempts + 1)
            ELSE IF RC(retryCount, p) >= maxRetries THEN CdScan(c2, attempts + 1)
            ELSE [found |-> TRUE, cur |-> c2]

CdGetNextProxy ==
    /\ mgr = "cooldown"
    /\ IF Len(proxies) = 0
       THEN /\ pmLast' = PmCall("GetNextProxy", NoProxy, NoProxy, "empty")
            /\ UNCHANGED <<current, retryCount, usedProxies, pmStreak>>
       ELSE LET f == CdScan(current, 0) IN
            IF f.found
            THEN /\ current' = f.cur
                 /\ usedProxies' = MapPut(usedProxies, proxies[f.cur + 1], now)
                 /\ pmLast' = PmCall("GetNextProxy", NoProxy, proxies[f.cur + 1], "fresh")
                 /\ UNCHANGED <<retryCount, pmStreak>>
            ELSE /\ current' = f.cur
                 /\ retryCount' = EmptyMap
                 /\ pmStreak' = EmptyMap
                 /\ usedProxies' = MapPut(EmptyMap, proxies[f.cur + 1], now)
                 /\ pmLast' = PmCall("GetNextProxy", NoProxy, proxies[f.cur + 1], "reset")
    /\ pmRun' = KeepLast(Append(pmRun, pmLast'.ret), Len(proxies) + 1)
    /\ UNCHANGED <<mgr, proxies, now, pxVars>>
    /\ UNCHANGED notPool

\* pm.retryCount[proxy]++; counts above maxRetries + 1 are not explored.
CdMarkProxyFailed(proxy) ==
    /\ mgr = "cooldown"
    /\ RC(retryCount, proxy) <= maxRetries
    /\ retryCount' = MapPut(retryCount, proxy, RC(retryCount, proxy) + 1)
    /\ pmLast' = PmCall("MarkProxyFailed", proxy, NoProxy, "")
    /\ pmStreak' = MapPut(pmStreak, proxy, RC(pmStreak, proxy) + 1)
    /\ pmRun' = <<>>
    /\ UNCHANGED <<mgr, proxies, current, usedProxies, now, pxVars>>
    /\ UNCHANGED notPool

CdTick ==
    /\ mgr = "cooldown"
    /\ now < MaxTime
    /\ now' = now + TickStep
    /\ UNCHANGED <<mgr, proxies, current, retryCount, usedProxies, pmLast,
                   pmStreak, pmRun, pxVars>>
    /\ UNCHANGED notPool

\* NewProxyManager of the variant: a non-empty fetched list, cursor 0.
CdNewProxyManager ==
    /\ proxies \in Pools
    /\ current = 0
    /\ retryCount = EmptyMap
    /\ usedProxies = EmptyMap
    /\ now = 0
    /\ pmLast = NoCall
    /\ pmStreak = EmptyMap
    /\ pmRun = <<>>

\* ------------------------------------------------------------------------
\* Browser sessions under any sequence of Initialize and Close calls
\* ------------------------------------------------------------------------

NoBrowser == 0

\* Owner of the browsers of the global session; a worker's browsers are
\* owned by its workerID (1, 2, ...).
GlobalSession == 0

\* A browser process from its launch on: who launched it, how many times
\* Close was called on it, and whether its session was established.
Launched(owner, stored) ==
    [owner |-> owner, closes |-> 0, established |-> stored]

CloseBrowser(bs, b) == [bs EXCEPT ![b].closes = @ + 1]

SessCall(op, arg) == [op |-> op, arg |-> arg]

\* InitializeBrowserSession: nothing to do with an active session;
\* otherwise playwright.Run, Launch (globalBrowser = browser), NewContext,
\* NewPage, sessionActive = true, each error returning at once.
InitializeBrowserSession ==
    /\ sessPc = "calls"
    /\ IF sessionActive
       THEN UNCHANGED <<sessionActive, globalBrowser, browsers>>
       ELSE \E r \in InitOutcomes :
              IF r \in {"runErr", "launchErr"}
              THEN UNCHANGED <<sessionActive, globalBrowser, browsers>>
              ELSE /\ Len(browsers) < MaxBrowsers
                   /\ browsers' = Append(browsers, Launched(GlobalSession, r = "ok"))
                   /\ globalBrowser' = Len(browsers) + 1
                   /\ sessionActive' = (r = "ok")
    /\ sessLast' = SessCall("InitializeBrowserSession", 0)
    /\ UNCHANGED <<workerRegistry, sessPc>>
    /\ UNCHANGED notSession

\* CloseBrowserSession closing the browser whether or not a session is
\* active.
CloseBrowserSession_NoActiveCheck ==
    /\ sessPc = "calls"
    /\ browsers' = IF globalBrowser # NoBrowser
                   THEN CloseBrowser(browsers, globalBrowser)
                   ELSE browsers
    /\ sessionActive' = FALSE
    /\ sessLast' = SessCall("CloseBrowserSession", 0)
    /\ UNCHANGED <<globalBrowser, workerRegistry, sessPc>>
    /\ UNCHANGED notSession

\* CloseBrowserSession: if sessionActive, close page, context and browser
\* (those that are not nil) and clear the flag.
CloseBrowserSession ==
    /\ sessPc = "calls"
    /\ IF sessionActive
       THEN /\ browsers' = IF globalBrowser # NoBrowser
                           THEN CloseBrowser(browsers, globalBrowser)
                           ELSE browsers
            /\ sessionActive' = FALSE
       ELSE UNCHANGED <<sessionActive, browsers>>
    /\ sessLast' = SessCall("CloseBrowserSession", 0)
    /\ UNCHANGED <<globalBrowser, workerRegistry, sessPc>>
    /\ UNCHANGED notSession

\* InitializeWorkerBrowserSession: nothing to do if the worker's entry
\* exists and is Active; the error returns after the launch close the
\* browser; on success the session is stored.
InitializeWorkerBrowserSession(workerID) ==
    /\ sessPc = "calls"
    /\ IF workerRegistry[workerID] # NoBrowser
       THEN UNCHANGED <<workerRegistry, browsers>>
       ELSE \E r \in InitOutcomes :
              IF r \in {"runErr", "launchErr"}
              THEN UNCHANGED <<workerRegistry, browsers>>
              ELSE /\ Len(browsers) < MaxBrowsers
                   /\ browsers' =
                        IF r = "ok"
                        THEN Append(browsers, Launched(workerID, TRUE))
                        ELSE CloseBrowser(Append(browsers, Launched(workerID, FALSE)),
                                          Len(browsers) + 1)
                   /\ workerRegistry' =
                        IF r = "ok"
                        THEN [workerRegistry EXCEPT ![workerID] = Len(browsers) + 1]
                        ELSE workerRegistry
    /\ sessLast' = SessCall("InitializeWorkerBrowserSession", workerID)
    /\ UNCHANGED <<sessionActive, globalBrowser, sessPc>>
    /\ UNCHANGED notSession

\* CloseWorkerBrowserSession: an entry that exists and is Active has its
\* context and browser closed and is deleted.
CloseWorkerBrowserSession(workerID) ==
    /\ sessPc = "calls"
    /\ IF workerRegistry[workerID] # NoBrowser
       THEN /\ browsers' = CloseBrowser(browsers, workerRegistry[workerID])
            /\ workerRegistry' = [workerRegistry EXCEPT ![workerID] = NoBrowser]
       ELSE UNCHANGED <<workerRegistry, browsers>>
    /\ sessLast' = SessCall("CloseWorkerBrowserSession", workerID)
    /\ UNCHANGED <<sessionActive, globalBrowser, sessPc>>
    /\ UNCHANGED notSession

\* The package variables when the program starts
SessionStart ==
    /\ sessionActive = FALSE
    /\ globalBrowser = NoBrowser
    /\ workerRegistry = [w \in Workers |-> NoBrowser]
    /\ browsers = <<>>
    /\ sessLast = SessCall("none", 0)
    /\ sessPc = "calls"

SessionIdle ==
    /\ sessionActive = FALSE
    /\ globalBrowser = NoBrowser
    /\ workerRegistry = <<>>
    /\ browsers = <<>>
    /\ sessLast = SessCall("none", 0)
    /\ sessPc = "off"

\* ------------------------------------------------------------------------
\* concurrentScrapePages
\* ------------------------------------------------------------------------

\* Pages of one call: startPage .. end
ScrapePages == startPage..scrapeRange.endPage

\* semaphore <- struct{}{}: blocks while concurrency goroutines hold a slot.
\* ScrapeAcquire that takes a slot whether or not one is free.
ScrapeAcquire_NoLimit(pageNum) ==
    /\ scrapePc[pageNum] = "acquire"
    /\ semaphore' = semaphore + 1
    /\ scrapePc' = [scrapePc EXCEPT ![pageNum] = "scrape"]
    /\ UNCHANGED <<scrapeRange, results, resultsClosed, allContacts, collectorPc>>
    /\ UNCHANGED notCollect

ScrapeAcquire(pageNum) ==
    /\ scrapePc[pageNum] = "acquire"
    /\ semaphore < concurrency
    /\ semaphore' = semaphore + 1
    /\ scrapePc' = [scrapePc EXCEPT ![pageNum] = "scrape"]
    /\ UNCHANGED <<scrapeRange, results, resultsClosed, allContacts, collectorPc>>
    /\ UNCHANGED notCollect

\* result := scrapePage(pageNum)
ScrapePage(pageNum) ==
    /\ scrapePc[pageNum] = "scrape"
    /\ scrapePc' = [scrapePc EXCEPT ![pageNum] = "send"]
    /\ UNCHANGED <<scrapeRange, semaphore, results, resultsClosed, allContacts,
                   collectorPc>>
    /\ UNCHANGED notCollect

\* results <- result: blocks while the buffer of endPage-startPage+1 slots
\* is full.
ScrapeSend(pageNum) ==
    /\ scrapePc[pageNum] = "send"
    /\ Len(results) < scrapeRange.endPage - startPage + 1
    /\ results' = Append(results, pageNum)
    /\ scrapePc' = [scrapePc EXCEPT ![pageNum] = "release"]
    /\ UNCHANGED <<scrapeRange, semaphore, resultsClosed, allContacts, collectorPc>>
    /\ UNCHANGED notCollect

\* The deferred functions: <-semaphore, then wg.Done()
ScrapeRelease(pageNum) ==
    /\ scrapePc[pageNum] = "release"
    /\ semaphore' = semaphore - 1
    /\ scrapePc' = [scrapePc EXCEPT ![pageNum] = "done"]
    /\ UNCHANGED <<scrapeRange, results, resultsClosed, allContacts, collectorPc>>
    /\ UNCHANGED notCollect

\* go func() { wg.Wait(); close(results) }()
ScrapeClose ==
    /\ collectorPc \in {"range", "done"}
    /\ ~resultsClosed
    /\ \A p \in ScrapePages : scrapePc[p] = "done"
    /\ resultsClosed' = TRUE
    /\ UNCHANGED <<scrapeRange, scrapePc, semaphore, results, allContacts,
                   collectorPc>>
    /\ UNCHANGED notCollect

\* for result := range results { allContacts = append(...) }: one receive
ScrapeCollect ==
    /\ collectorPc = "range"
    /\ results # <<>>
    /\ allContacts' = Append(allContacts, Head(results))
    /\ results' = Tail(results)
    /\ UNCHANGED <<scrapeRange, scrapePc, semaphore, resultsClosed, collectorPc>>
    /\ UNCHANGED notCollect

\* The range loop ends when the channel is closed and drained.
ScrapeCollectEnd ==
    /\ collectorPc = "range"
    /\ results = <<>>
    /\ resultsClosed
    /\ collectorPc' = "done"
    /\ UNCHANGED <<scrapeRange, scrapePc, semaphore, results, resultsClosed,
                   allContacts>>
    /\ UNCHANGED notCollect

\* concurrentScrapePages(startPage, endPage, concurrency) after its loop
\* has started one goroutine per page
CollectStart ==
    /\ scrapeRange \in [endPage : startPage..ScrapeEndPage]
    /\ scrapePc = [p \in ScrapePages |-> "acquire"]
    /\ semaphore = 0
    /\ results = <<>>
    /\ resultsClosed = FALSE
    /\ allContacts = <<>>
    /\ collectorPc = "range"

CollectIdle ==
    /\ scrapeRange = [endPage |-> 0]
    /\ scrapePc = <<>>
    /\ semaphore = 0
    /\ results = <<>>
    /\ resultsClosed = FALSE
    /\ allContacts = <<>>
    /\ collectorPc = "off"

\* ------------------------------------------------------------------------
\* Specifications
\* ------------------------------------------------------------------------

vars == <<mgr, pmVars, pxVars, concVars, seqVars, fetchVars, raceVars, exVars, seedVars, sessionVars, collectVars>>

InitPool ==
    /\ \/ mgr = "scraper" /\ NewProxyManager /\ PxIdle
       \/ mgr = "proxy" /\ PxNewProxyManager /\ PmIdle
    /\ ConcIdle
    /\ SeqIdle
    /\ FetchIdle
    /\ RaceIdle
    /\ ExtractIdle
    /\ SeedIdle
    /\ SessionIdle
    /\ CollectIdle

NextPool ==
    \/ GetNextProxy
    \/ \E i \in 1..Len(proxies) : MarkProxyFailed(proxies[i])
    \/ \E i \in 1..Len(proxies) : MarkProxyBanned(proxies[i])
    \/ Tick
    \/ PxGetNextProxy
    \/ PxGetRandomProxy
    \/ \E p \in pxHeld : PxMarkProxyFailed(p)
    \/ \E p \in pxHeld : PxMarkProxySuccess(p)

SpecPool == InitPool /\ [][NextPool]_vars

InitConc ==
    /\ ConcStart
    /\ mgr = "idle" /\ PmIdle /\ PxIdle
    /\ SeqIdle
    /\ FetchIdle
    /\ RaceIdle
    /\ ExtractIdle
    /\ SeedIdle
    /\ SessionIdle
    /\ CollectIdle

NextConc ==
    \/ MainSeed
    \/ \E w \in Workers : WorkerStart(w)
    \/ \E w \in Workers : WorkerInit(w)
    \/ \E w \in Workers : WorkerDequeue(w)
    \/ \E w \in Workers : WorkerLookup(w)
    \/ \E w \in Workers : WorkerFetch(w)
    \/ \E w \in Workers : WorkerPanic(w)
    \/ \E w \in Workers : WorkerClose(w)
    \/ \E w \in Workers : WorkerLock(w)
    \/ \E w \in Workers : WorkerAppendRead(w)
    \/ \E w \in Workers : WorkerAppendWrite(w)
    \/ \E w \in Workers : WorkerUnlock(w)
    \/ \E w \in Workers : WorkerDoubleCheck(w)
    \/ \E w \in Workers : WorkerSleep(w)
    \/ MainWait
    \/ MainExport
    \/ MainExportPanic
    \/ MainDeferred
    \/ MainDeferredDeadlock

SpecConc == InitConc /\ [][NextConc]_vars

\* The Go scheduler runs every goroutine that can take a step.
SpecConcFair == InitConc /\ [][NextConc]_vars /\ WF_vars(NextConc)

InitSeq ==
    /\ SeqStart
    /\ mgr = "idle" /\ PmIdle /\ PxIdle
    /\ ConcIdle
    /\ FetchIdle
    /\ RaceIdle
    /\ ExtractIdle
    /\ SeedIdle
    /\ SessionIdle
    /\ CollectIdle

NextSeq ==
    \/ DynIteration
    \/ DynSleep
    \/ FixInitSession
    \/ FixIteration
    \/ FixSleep
    \/ SeqExport
    \/ SeqDeferred

SpecSeq == InitSeq /\ [][NextSeq]_vars

InitFetch ==
    /\ FetchStart
    /\ mgr = "idle" /\ PmIdle /\ PxIdle
    /\ ConcIdle
    /\ SeqIdle
    /\ RaceIdle
    /\ ExtractIdle
    /\ SeedIdle
    /\ SessionIdle
    /\ CollectIdle

NextFetch ==
    \/ FetchBegin
    \/ FetchNavigate
    \/ FetchDetect
    \/ FetchCaptchaWait
    \/ FetchScreenshot
    \/ FetchReturn

SpecFetch == InitFetch /\ [][NextFetch]_vars

\* A manager on which no call was made yet, with distinct endpoints and
\* none of them pre-banned.
InitRace ==
    /\ \/ /\ mgr = "scraper" /\ NewProxyManager /\ PxIdle
          /\ proxies \in {Prefix(n) : n \in 1..MaxProxies}
          /\ retryCount = EmptyMap
       \/ mgr = "proxy" /\ PxNewProxyManager /\ PmIdle
    /\ RaceIdle
    /\ ConcIdle
    /\ SeqIdle
    /\ FetchIdle
    /\ ExtractIdle
    /\ SeedIdle
    /\ SessionIdle
    /\ CollectIdle

NextRace ==
    \/ \E c \in Callers : RaceCall(c)
    \/ \E c \in Callers : PmRaceLoad(c)
    \/ \E c \in Callers : PmRaceStore(c)
    \/ \E c \in Callers : PmRaceTest(c)
    \/ \E c \in Callers : PmRaceUse(c)
    \/ \E c \in Callers : PmRaceMarkLoad(c)
    \/ \E c \in Callers : PmRaceMarkStore(c)
    \/ \E c \in Callers : PxRaceAcquire(c)
    \/ \E c \in Callers : PxRaceBody(c)
    \/ \E c \in Callers : PxRaceWrite(c)
    \/ \E c \in Callers : PxRaceRelease(c)

SpecRace == InitRace /\ [][NextRace]_vars

InitExtract ==
    /\ ExtractStart
    /\ mgr = "idle" /\ PmIdle /\ PxIdle
    /\ ConcIdle
    /\ SeqIdle
    /\ FetchIdle
    /\ RaceIdle
    /\ SeedIdle
    /\ SessionIdle
    /\ CollectIdle

NextExtract ==
    \/ ExtractStep
    \/ AppendStep

SpecExtract == InitExtract /\ [][NextExtract]_vars

InitSeed ==
    /\ SeedStart
    /\ mgr = "idle" /\ PmIdle /\ PxIdle
    /\ ConcIdle
    /\ SeqIdle
    /\ FetchIdle
    /\ RaceIdle
    /\ ExtractIdle
    /\ SessionIdle
    /\ CollectIdle

NextSeed ==
    \/ SeedMake
    \/ SeedSend
    \/ SeedBlock
    \/ SeedClose

SpecSeed == InitSeed /\ [][NextSeed]_vars

InitCooldown ==
    /\ mgr = "cooldown" /\ CdNewProxyManager /\ PxIdle
    /\ ConcIdle
    /\ SeqIdle
    /\ FetchIdle
    /\ RaceIdle
    /\ ExtractIdle
    /\ SeedIdle
    /\ SessionIdle
    /\ CollectIdle

NextCooldown ==
    \/ CdGetNextProxy
    \/ \E i \in 1..Len(proxies) : CdMarkProxyFailed(proxies[i])
    \/ CdTick

SpecCooldown == InitCooldown /\ [][NextCooldown]_vars

InitSession ==
    /\ SessionStart
    /\ mgr = "idle" /\ PmIdle /\ PxIdle
    /\ ConcIdle
    /\ SeqIdle
    /\ FetchIdle
    /\ RaceIdle
    /\ ExtractIdle
    /\ SeedIdle
    /\ CollectIdle

NextSession ==
    \/ InitializeBrowserSession
    \/ CloseBrowserSession
    \/ \E w \in Workers : InitializeWorkerBrowserSession(w)
    \/ \E w \in Workers : CloseWorkerBrowserSession(w)

SpecSession == InitSession /\ [][NextSession]_vars

InitCollect ==
    /\ CollectStart
    /\ mgr = "idle" /\ PmIdle /\ PxIdle
    /\ ConcIdle
    /\ SeqIdle
    /\ FetchIdle
    /\ RaceIdle
    /\ ExtractIdle
    /\ SeedIdle
    /\ SessionIdle

NextCollect ==
    \/ \E p \in ScrapePages : ScrapeAcquire(p)
    \/ \E p \in ScrapePages : ScrapePage(p)
    \/ \E p \in ScrapePages : ScrapeSend(p)
    \/ \E p \in ScrapePages : ScrapeRelease(p)
    \/ ScrapeClose
    \/ ScrapeCollect
    \/ ScrapeCollectEnd

SpecCollect == InitCollect /\ [][NextCollect]_vars

\* proxy.ProxyManager with AddProxy called at any time
InitPtr ==
    /\ mgr = "proxy" /\ PxNewProxyManager /\ PmIdle
    /\ ConcIdle
    /\ SeqIdle
    /\ FetchIdle
    /\ RaceIdle
    /\ ExtractIdle
    /\ SeedIdle
    /\ SessionIdle
    /\ CollectIdle

NextPtr ==
    \/ PxAddProxy
    \/ PxGetNextProxy
    \/ \E p \in pxHeld : PxMarkProxyFailed(p)
    \/ \E p \in pxHeld : PxMarkProxySuccess(p)

SpecPtr == InitPtr /\ [][NextPtr]_vars

\* The Go scheduler runs every goroutine that can take a step.
SpecCollectFair == InitCollect /\ [][NextCollect]_vars /\ WF_vars(NextCollect)

\* ------------------------------------------------------------------------
\* Claims about the proxy managers (SpecPool)
\* ------------------------------------------------------------------------

PoolNames == {proxies[i] : i \in 1..Len(proxies)}

\* C1: GetNextProxy never returns an endpoint that was banned when the call
\* was made (failure count at the threshold, or Active = false) as long as
\* the pool held at least one endpoint that was not banned; it then returns
\* an endpoint and no error.  Both managers.
C1_NoBannedWhileHealthy ==
    /\ (mgr = "scraper" /\ pmLast.op = "GetNextProxy" /\ pmLast.healthyBefore > 0)
         => /\ pmLast.ret \in PoolNames
            /\ pmLast.countBefore < maxRetries
    /\ (mgr = "proxy" /\ pxLast.op = "GetNextProxy" /\ pxLast.activeCountBefore > 0)
         => /\ ~pxLast.err
            /\ pxLast.ret # NilPtr
            /\ pxLast.activeBefore
            /\ pxLast.failsBefore < maxFails

\* C1 witness: a pool with a banned and a healthy endpoint, the healthy one
\* inside its cooldown, and GetNextProxy returned the healthy one.
C1_Witness ==
    /\ mgr = "scraper"
    /\ pmLast.op = "GetNextProxy"
    /\ pmLast.path = "recycled"
    /\ pmLast.healthyBefore >= 1
    /\ pmLast.healthyBefore < Len(proxies)
    /\ \E p \in PoolNames : IsBanned(retryCount, p)
    /\ pmLast.countBefore < maxRetries

\* C2: if every endpoint of a non-empty pool is banned, the next
\* GetNextProxy call returns an endpoint and no error, and after the call
\* every endpoint is eligible again (failure counters and ban flags
\* cleared).  Both managers.
C2_EmergencyReset ==
    /\ (mgr = "scraper" /\ pmLast.op = "GetNextProxy" /\ Len(proxies) > 0
           /\ pmLast.healthyBefore = 0)
         => /\ pmLast.ret \in PoolNames
            /\ \A p \in PoolNames : RC(retryCount, p) = 0
    /\ (mgr = "proxy" /\ pxLast.op = "GetNextProxy" /\ PxLen > 0
           /\ pxLast.activeCountBefore = 0)
         => /\ ~pxLast.err
            /\ pxLast.ret # NilPtr
            /\ \A i \in 0..(PxLen - 1) : PxAt(i).Active /\ PxAt(i).FailCount = 0

\* C3: the MarkProxyFailed call that bans a healthy endpoint is exactly the
\* maxRetries-th consecutive one (no MarkProxySuccess, no clearing of the
\* counters in between), never an earlier one; MarkProxySuccess leaves the
\* failure counter at 0, and the counter of a healthy endpoint equals its
\* number of consecutive failures.
C3_BanThreshold ==
    /\ (mgr = "scraper" /\ pmLast.op = "MarkProxyFailed"
           /\ pmLast.countBefore < maxRetries)
         => /\ IsBanned(retryCount, pmLast.arg) <=> RC(pmStreak, pmLast.arg) = maxRetries
            /\ RC(retryCount, pmLast.arg) = pmLast.countBefore + 1
    /\ (mgr = "proxy" /\ pxLast.op = "MarkProxyFailed" /\ pxLast.activeBefore)
         => /\ ~Deref(pxLast.arg).Active <=> RC(pxStreak, pxLast.arg) = maxFails
            /\ Deref(pxLast.arg).FailCount = pxLast.failsBefore + 1
    /\ (mgr = "proxy" /\ pxLast.op = "MarkProxySuccess")
         => Deref(pxLast.arg).FailCount = 0
    /\ mgr = "proxy"
         => \A ptr \in pxHeld :
              Deref(ptr).Active => Deref(ptr).FailCount = RC(pxStreak, ptr)

\* C3 witness: a third consecutive failure has just banned an endpoint that
\* was active before the call.
C3_Witness ==
    /\ mgr = "proxy"
    /\ pxLast.op = "MarkProxyFailed"
    /\ pxLast.activeBefore
    /\ pxLast.failsBefore = maxFails - 1
    /\ RC(pxStreak, pxLast.arg) = maxFails
    /\ ~Deref(pxLast.arg).Active

\* C21: directly after MarkProxyBanned(p) the endpoint p is banned and is
\* not counted as healthy, whatever its failure count was before the call;
\* a banned endpoint stays banned and is not returned by GetNextProxy in
\* any step other than the emergency reset.
C21_BannedImmediately ==
    [][mgr = "scraper" =>
         /\ pmLast'.op = "MarkProxyBanned"
              => /\ IsBanned(retryCount', pmLast'.arg)
                 /\ GetHealthyProxies' =
                      Cardinality({i \in 1..Len(proxies) :
                                     /\ proxies[i] # pmLast'.arg
                                     /\ RC(retryCount', proxies[i]) < maxRetries})
         /\ \A p \in PoolNames :
              (IsBanned(retryCount, p)
                 /\ ~(pmLast'.op = "GetNextProxy" /\ pmLast'.path = "emergency"
                        /\ retryCount' = EmptyMap))
                => /\ IsBanned(retryCount', p)
                   /\ pmLast'.op = "GetNextProxy" => pmLast'.ret # p]_vars

\* C21 witness: MarkProxyBanned was called on an endpoint with one failure
\* while another endpoint is healthy, and the endpoint is banned.
C21_Witness ==
    /\ mgr = "scraper"
    /\ pmLast.op = "MarkProxyBanned"
    /\ pmLast.countBefore = 1
    /\ IsBanned(retryCount, pmLast.arg)
    /\ GetHealthyProxies >= 1

\* C22: an endpoint that was banned when a selection was made is not the
\* one selected (GetNextProxy outside the emergency reset, GetRandomProxy);
\* MarkProxySuccess on a banned endpoint leaves it banned; and an endpoint
\* is banned exactly when its failure count is at least the threshold.
C22_BannedStaysExcluded ==
    /\ (mgr = "scraper" /\ pmLast.op = "GetNextProxy"
           /\ pmLast.path \in {"fresh", "recycled"})
         => pmLast.countBefore < maxRetries
    /\ (mgr = "proxy" /\ pxLast.op \in {"GetNextProxy", "GetRandomProxy"}
           /\ ~pxLast.err)
         => pxLast.activeBefore
    /\ (mgr = "proxy" /\ pxLast.op = "MarkProxySuccess" /\ ~pxLast.activeBefore)
         => ~Deref(pxLast.arg).Active
    /\ mgr = "proxy"
         => \A i \in 0..(PxLen - 1) :
              ~PxAt(i).Active <=> PxAt(i).FailCount >= maxFails

\* A step of scraper.ProxyManager.GetNextProxy that returned an endpoint
PmSelects ==
    /\ mgr = "scraper"
    /\ pmLast'.op = "GetNextProxy"
    /\ pmLast'.ret # NoProxy
    /\ <<current, usedProxies, retryCount, pmLast>>'
         # <<current, usedProxies, retryCount, pmLast>>

\* Not banned and outside its cooldown, in the state before the call
Fresh(p) == ~IsBanned(retryCount, p) /\ ~RecentlyUsed(usedProxies, now, p)

\* C23: whenever some non-banned endpoint is outside its cooldown when
\* GetNextProxy is called, the endpoint returned is non-banned and outside
\* its cooldown; an endpoint inside its cooldown is returned only if every
\* non-banned endpoint is inside its cooldown.
C23_CooldownRelaxedOnlyWhenNeeded ==
    [][PmSelects =>
         /\ (\E p \in PoolNames : Fresh(p)) => Fresh(pmLast'.ret)
         /\ RecentlyUsed(usedProxies, now, pmLast'.ret)
              => \A p \in PoolNames :
                   ~IsBanned(retryCount, p) => RecentlyUsed(usedProxies, now, p)]_vars

\* C23 witness: with two healthy endpoints both inside their cooldown,
\* GetNextProxy returned one of them from its second loop.
C23_Witness ==
    /\ mgr = "scraper"
    /\ pmLast.op = "GetNextProxy"
    /\ pmLast.path = "recycled"
    /\ pmLast.healthyBefore >= 2
    /\ \A p \in PoolNames : RecentlyUsed(usedProxies, now, p)

\* A step of proxy.ProxyManager.GetNextProxy that returned an endpoint
PxSelects ==
    /\ mgr = "proxy"
    /\ pxLast'.op = "GetNextProxy"
    /\ ~pxLast'.err
    /\ <<currentIdx, pxArrays, pxLast, pxRun>>' # <<currentIdx, pxArrays, pxLast, pxRun>>

\* The first position of S met when counting start, start + 1, ... modulo n
CyclicFirst(start, n, S) ==
    LET k == CHOOSE k \in 0..(n - 1) :
                 /\ ((start + k) % n) \in S
                 /\ \A j \in 0..(k - 1) : ((start + j) % n) \notin S
    IN (start + k) % n

\* Positions GetNextProxy may select: the non-banned ones outside their
\* cooldown, or every non-banned one if there is none of these.
Eligible ==
    LET healthy == {i \in 0..(Len(proxies) - 1) : ~IsBanned(retryCount, proxies[i + 1])}
        fresh == {i \in healthy : Fresh(proxies[i + 1])}
    IN IF fresh # {} THEN fresh ELSE healthy

\* n consecutive results are distinct and the (n+1)-th is the first again
RoundRobin(run, n) ==
    /\ \A i, j \in DOMAIN run : (i < j /\ j - i < n) => run[i] # run[j]
    /\ Len(run) = n + 1 => run[n + 1] = run[1]

C25_HealthSnapshotConsistent ==
    /\ (mgr = "scraper" /\ Cardinality(PoolNames) = Len(proxies))
         => /\ GetProxyStats.total_proxies
                 = GetProxyStats.active_proxies + GetProxyStats.failed_proxies
            /\ GetProxyStats.active_proxies = GetHealthyProxies
            /\ GetProxyStats.active_proxies
                 = Cardinality({i \in 1..Len(proxies) : ~IsBanned(retryCount, proxies[i])})
    /\ mgr = "proxy"
         => /\ GetActiveProxyCount <= PxLen
            /\ GetActiveProxyCount
                 = PxLen - Cardinality({i \in 0..(PxLen - 1) : ~PxAt(i).Active})

\* The caller is inside a read-modify-write of the pool state: it holds the
\* write lock, or it has read a value it is about to write back, or it is
\* about to write an endpoint it selected.
InWrite(c) ==
    \/ calls[c].pc \in {"store", "test", "use", "mfStore", "write"}
    \/ calls[c].pc = "body" /\ calls[c].op \in {"GetNextProxy", "MarkProxyFailed"}

\* C26: no two calls that write the pool state overlap; when every caller
\* made one GetNextProxy call on a fresh pool with at least as many
\* endpoints as callers, the endpoints returned are distinct; two
\* GetRandomProxy calls are never about to write the same endpoint at the
\* same time.
C26_PoolMutualExclusion ==
    /\ \A c, d \in Callers : (c # d /\ InWrite(c)) => ~InWrite(d)
    /\ (/\ \A c \in Callers : calls[c].op = "GetNextProxy" /\ calls[c].pc = "done"
        /\ PoolCallers <= (IF mgr = "scraper" THEN Len(proxies) ELSE PxLen))
         => \A c, d \in Callers : c # d => calls[c].ret # calls[d].ret
    /\ \A c, d \in Callers :
         (c # d /\ calls[c].op = "GetRandomProxy" /\ calls[d].op = "GetRandomProxy"
            /\ calls[c].pc = "write" /\ calls[d].pc = "write")
           => calls[c].idx # calls[d].idx

\* C30: the pool that scraper.NewProxyManager built is non-empty, holds at
\* most 200 endpoints and holds no endpoint twice.
C30_InitialisedPoolWellFormed ==
    mgr = "scraper"
      => /\ Len(proxies) >= 1
         /\ Len(proxies) <= 200
         /\ \A i, j \in 1..Len(proxies) : proxies[i] = proxies[j] => i = j

\* A step of GetNextProxy of the cooldown variant that returned an endpoint
CdSelects ==
    /\ mgr = "cooldown"
    /\ pmLast'.op = "GetNextProxy"
    /\ pmLast'.ret # NoProxy
    /\ <<current, usedProxies, retryCount, pmLast>>'
         # <<current, usedProxies, retryCount, pmLast>>

\* C34 (SpecCooldown): a GetNextProxy call of the cooldown variant that
\* clears the failure counts was made with every endpoint at the retry
\* limit, and a call that returns from the reset path an endpoint that was
\* at the retry limit was made with every endpoint at the retry limit.
C34_ResetOnlyWhenAllExhausted ==
    [][CdSelects =>
         /\ ((retryCount # EmptyMap /\ retryCount' = EmptyMap)
               => (\A p \in PoolNames : IsBanned(retryCount, p)))
         /\ ((pmLast'.path = "reset" /\ IsBanned(retryCount, pmLast'.ret))
               => (\A p \in PoolNames : IsBanned(retryCount, p)))]_vars

\* C39 (SpecPtr): failures reported through a pointer returned by
\* GetNextProxy reach the endpoint stored in the pool, also when AddProxy
\* was called in between: once maxFails consecutive failures were reported
\* through it, the endpoint of the pool at that index is not Active.
C39_ReportsReachThePool ==
    mgr = "proxy"
      => \A ptr \in pxHeld :
           (ptr.idx < PxLen /\ RC(pxStreak, ptr) >= maxFails) => ~PxAt(ptr.idx).Active

\* ------------------------------------------------------------------------
\* Claims about the concurrent main (SpecConc)
\* ------------------------------------------------------------------------

AllWorkersDone == \A w \in Workers : wpc[w] = "done"

PeriodicWrites == {i \in DOMAIN writes : writes[i].kind = "periodic"}

\* The largest snapshot written so far (0 if none)
MaxSaved ==
    IF writes = <<>> THEN 0
    ELSE CHOOSE n \in {writes[i].n : i \in DOMAIN writes} :
           \A i \in DOMAIN writes : writes[i].n <= n

\* No worker is between its append and the end of its periodic-save check.
WorkersAtRest ==
    \A w \in Workers :
      wpc[w] \notin {"appendRead", "appendWrite", "unlock", "lock2", "doubleCheck"}

\* C4: once every worker has exited, the aggregate holds exactly the sum of
\* the record counts of all appends, whatever the interleaving of the
\* workers' lock / append / unlock steps.
C4_NoLostUpdate ==
    AllWorkersDone => allSellerInfo = appended

\* C4 witness: every worker appended to a non-empty aggregate and exited.
C4_Witness ==
    /\ AllWorkersDone
    /\ proc = "running"
    /\ \A w \in Workers : totalContacts[w] > 0 /\ sellerInfoList[w] > 0
    /\ allSellerInfo = appended

\* C5: at most one periodic write per multiple of 200 reached by the
\* aggregate, also when an append adds zero records while the aggregate
\* sits on the multiple.
C5_OneWritePerCrossing ==
    \A i, j \in PeriodicWrites : writes[i].n = writes[j].n => i = j

\* C6: whenever the aggregate crossed a multiple of 200 a periodic write
\* followed, so that with no worker in the middle of an append or its
\* periodic-save check fewer than 200 appended records are in no write.
C6_UnsavedBelowInterval ==
    (proc = "running" /\ WorkersAtRest) => allSellerInfo - MaxSaved < PeriodicEvery

\* C7: on every way the process ends after an append (normal return, a panic
\* in main, a panic in a worker), an emergency save has written a snapshot
\* that holds every appended record.
C7_EmergencySaveOnEveryExit ==
    (proc \in {"exited", "crashed", "deadlock"} /\ allSellerInfo > 0)
      => \E i \in DOMAIN writes :
           writes[i].kind = "emergency" /\ writes[i].n = allSellerInfo

\* C8: when the run has ended with the page range exhausted, the final
\* flush of the aggregate has run exactly once: the end-of-run export and
\* the deferred emergency save together made one write.  Stated for a run
\* that collected at least one record (with an empty aggregate neither of
\* the two writes anything).
C8_FinalFlushExactlyOnce ==
    (proc = "exited" /\ pageChannel = <<>> /\ allSellerInfo > 0)
      => Cardinality({i \in DOMAIN writes :
                        writes[i].kind \in {"final", "emergency"}}) = 1

\* Pages of the range whose fetch has ended: received from the channel and
\* no longer between the receive and the return of the fetch.
CompletedPages ==
    (maxPages - startPage + 1) - Len(pageChannel)
      - Cardinality({w \in Workers : wpc[w] \in {"lookup", "fetch"}})

\* C11: once the pages that failed or gave zero records in a row have
\* reached the ceiling of 5, no worker receives another page number from
\* the channel.  Stated for a site that serves no listing, where every
\* completed page is such a page.
C11_AbortStopsDequeues ==
    [][(mainPc # "seed" /\ siteYields = {0}
          /\ CompletedPages >= maxConsecutiveFailures)
         => pageChannel' = pageChannel]_vars

\* C12: when the run has returned, every page number of the range has been
\* received from the channel by exactly one worker, whatever the outcomes
\* of the workers' session initialisations.
C12_EveryPageDequeuedOnce ==
    proc = "exited" => \A p \in startPage..maxPages : dequeueCount[p] = 1

\* While pages are left and some worker has a session, a worker with a
\* session is still in its loop; once main is past wg.Wait with at least
\* one session established, the channel is drained and every page was
\* received exactly once.
InitFailureIsLocal ==
    /\ (proc = "running" /\ established # {} /\ pageChannel # <<>>)
         => \E w \in established : wpc[w] # "done"
    /\ (mainPc \notin {"seed", "wait"} /\ established # {})
         => /\ pageChannel = <<>>
            /\ \A p \in startPage..maxPages : dequeueCount[p] = 1

\* C13: a worker that cannot establish its session only ends itself: the
\* workers that have a session keep receiving pages, every page of the
\* range is received exactly once as long as one worker has a session, and
\* the run terminates.
C13_InitFailureIsLocal == [](InitFailureIsLocal) /\ <>(proc # "running")

\* C13 witness: one worker failed to initialise, another one had a session,
\* and the run returned with every page received once.
C13_Witness ==
    /\ proc = "exited"
    /\ established # {} /\ established # Workers
    /\ pageChannel = <<>>
    /\ \A p \in startPage..maxPages : dequeueCount[p] = 1

\* C14: a worker that has ended (channel drained, failed initialisation,
\* panic inside a fetch) has no session registered and every browser its
\* initialisation launched was closed exactly once; the same holds for
\* every worker when the run has returned; no browser is closed twice.
C14_SessionsTornDown ==
    /\ \A w \in Workers :
         /\ browserCloses[w] <= launches[w]
         /\ launches[w] <= 1
         /\ wpc[w] = "done"
              => workerSessions[w] = "none" /\ browserCloses[w] = launches[w]
    /\ proc = "exited"
         => \A w \in Workers :
              workerSessions[w] = "none" /\ browserCloses[w] = launches[w]

\* C14 witness: the run returned after one worker drained the channel with
\* its session and another one failed after it had launched a browser.
C14_Witness ==
    /\ proc = "exited"
    /\ \E w \in established : launches[w] = 1 /\ browserCloses[w] = 1
    /\ \E v \in Workers \ established : launches[v] = 1 /\ browserCloses[v] = 1

\* C15: a worker inside its fetch (navigation retries, CAPTCHA wait,
\* missed-page logging) uses the session registered under its own id and
\* holds that session's mutex only: not workerSessionMutex, not the
\* aggregate mutex, not another worker's session mutex.
C15_WorkersIsolated ==
    \A w \in Workers :
      wpc[w] = "fetch"
        => /\ session[w] = w
           /\ sessionMutex[w] = HeldBy(w)
           /\ workerSessionMutex # HeldBy(w)
           /\ mu # HeldBy(w)
           /\ \A v \in Workers \ {w} : sessionMutex[v] # HeldBy(w)

\* C15 witness: while one worker is still inside the fetch of the first
\* page, another worker has fetched a later page and is appending its
\* records.
C15_Witness ==
    \E w, v \in Workers :
      /\ w # v
      /\ wpc[w] = "fetch" /\ currentPage[w] = startPage
      /\ wpc[v] = "appendWrite" /\ currentPage[v] > startPage
      /\ sellerInfoList[v] > 0
      /\ mu = HeldBy(v)

\* C27: a worker that has fetched a page does not go back to the channel
\* for the next page without its delay: no step takes a worker from the
\* fetch of a page straight to the next receive.
C27_DelayAfterEveryPage ==
    [][\A w \in Workers :
         (wpc[w] = "fetch" /\ wpc'[w] # "fetch") => wpc'[w] # "dequeue"]_vars

\* C28: the channel holds its pages in ascending order, all of them above
\* the page of every worker; the page of a worker changes only when the
\* worker, back at the head of its loop, receives from the channel, and the
\* page received is greater than the one it handled before.
C28_WorkerPagesAscending ==
    /\ [](/\ \A i, j \in DOMAIN pageChannel :
                i < j => pageChannel[i] < pageChannel[j]
          /\ \A i \in DOMAIN pageChannel : \A w \in Workers :
                currentPage[w] < pageChannel[i])
    /\ [][\A w \in Workers :
            currentPage'[w] # currentPage[w]
              => /\ wpc[w] = "dequeue" /\ wpc'[w] = "lookup"
                 /\ currentPage'[w] = Head(pageChannel)
                 /\ currentPage'[w] > currentPage[w]]_vars

\* C28 witness: one worker received every page of the range, the last one
\* included, while the other workers received none.
C28_Witness ==
    \E w \in Workers :
      /\ mainPc # "seed"
      /\ pageChannel = <<>>
      /\ maxPages >= 2
      /\ currentPage[w] = maxPages
      /\ \A p \in startPage..maxPages : dequeueCount[p] = 1
      /\ \A v \in Workers \ {w} : currentPage[v] = 0

\* C31: the deferred emergency save of the concurrent main never blocks:
\* whenever main is in its deferred function the aggregate mutex can be
\* acquired, and the process never ends with the deferred mu.Lock() waiting
\* for a mutex that main itself holds.
C31_DeferredSaveNeverBlocks ==
    /\ mainPc = "deferred" => mu # HeldByMain
    /\ proc # "deadlock"

\* C32: seeding the page queue never blocks: whatever the flags with
\* start <= end, main is never stuck in a send on the full channel, and
\* when the channel is closed it holds every page of start .. end.
C32_SeedingNeverBlocks ==
    /\ seedPc # "blocked"
    /\ seedPc = "closed"
         => seedChannel = [i \in 1..(seedFlags.end - seedFlags.start + 1)
                             |-> seedFlags.start + i - 1]

\* A step that writes the periodic files
PeriodicWriteStep ==
    /\ Len(writes') = Len(writes) + 1
    /\ writes'[Len(writes')].kind = "periodic"

\* C35: the periodic files are written by a worker that holds the aggregate
\* mutex, when the length of the aggregate equals the positive multiple of
\* 200 that this worker read at its own append; what is written is the
\* whole aggregate, which the step leaves as it is, so every periodic file
\* holds a positive multiple of 200 records.
C35_PeriodicWriteUnderLock ==
    /\ [](\A i \in PeriodicWrites :
             writes[i].n > 0 /\ writes[i].n % PeriodicEvery = 0)
    /\ [][PeriodicWriteStep =>
            \E w \in Workers :
               /\ mu = HeldBy(w)
               /\ wpc[w] = "doubleCheck"
               /\ totalContacts[w] > 0
               /\ totalContacts[w] % PeriodicEvery = 0
               /\ allSellerInfo = totalContacts[w]
               /\ writes'[Len(writes')].n = allSellerInfo
               /\ allSellerInfo' = allSellerInfo]_vars

\* C35 witness: a periodic file was written while another worker's append
\* had already happened, both workers having appended records.
C35_Witness ==
    /\ PeriodicWrites # {}
    /\ \A w \in Workers : totalContacts[w] > 0

\* ------------------------------------------------------------------------
\* Claims about the sequential mains (SpecSeq)
\* ------------------------------------------------------------------------

\* C9: after five pages in a row with a screenshot and zero extracted
\* records the sequential run stops: no further page is fetched.
C9_FiveZeroPagesStop ==
    zeroRun >= maxConsecutiveFailures => seqPc # "fetch"

\* C10: the consecutive-failure counter is 0 right after a page that gave a
\* screenshot and at least one record, it stays within 0..ceiling, and the
\* loop goes on (sleeps or fetches) only while the counter is below the
\* ceiling.
C10_CounterDiscipline ==
    /\ seqLast = "records" => consecutiveFailures = 0
    /\ consecutiveFailures \in 0..maxConsecutiveFailures
    /\ seqPc \in {"fetch", "sleep"} => consecutiveFailures < maxConsecutiveFailures

\* C10 witness: after a page with records reset the counter, five failed
\* screenshots in a row took it to the ceiling and the loop was left.
C10_Witness ==
    /\ seqAllSellerInfo > 0
    /\ seqLast = "shotFailed"
    /\ consecutiveFailures = maxConsecutiveFailures
    /\ seqPc = "export"

\* C33: the dynamic sequential run fetches only pages of
\* startPage .. maxPages: whenever the loop is about to take a screenshot,
\* currentPage lies in that range.
C33_DynamicStaysInRange ==
    (seqVariant = "dynamic" /\ seqProc = "running" /\ seqPc = "fetch")
      => (SeqStartPage <= seqCurrentPage /\ seqCurrentPage <= SeqMaxPages)

\* ------------------------------------------------------------------------
\* Claims about the page fetch (SpecFetch)
\* ------------------------------------------------------------------------

NavOutcomes(os) == {i \in DOMAIN os : os[i].kind = "nav"}

\* The calls a fetch makes, as a function of the outcomes it met.
RECURSIVE ExpectedTrace(_, _)
ExpectedTrace(variant, os) ==
    IF os = <<>> THEN <<>>
    ELSE LET o == os[Len(os)]
             before == ExpectedTrace(variant, SubSeq(os, 1, Len(os) - 1))
         IN IF o.kind = "init" THEN before \o <<"InitializeBrowserSession">>
            ELSE IF o.kind = "nav"
            THEN IF variant = "worker" /\ ~o.ok
                    /\ Cardinality(NavOutcomes(os)) = navMaxRetries
                 THEN before \o <<"Goto", "logMissedPage">>
                 ELSE before \o <<"Goto">>
            ELSE IF o.kind = "page" THEN before \o <<"Content">>
            ELSE IF o.kind = "captcha"
            THEN IF variant = "worker" /\ ~o.ok
                 THEN before \o <<"Sleep", "logMissedPage">>
                 ELSE before \o <<"Sleep">>
            ELSE before \o <<"Screenshot">>

\* The value a fetch returns, as a function of the outcomes it met: the
\* image if its last step was a screenshot that succeeded, "" otherwise.
ExpectedResult(os) ==
    IF os # <<>> /\ os[Len(os)].kind = "screenshot" /\ os[Len(os)].ok
    THEN "screenshot.png" ELSE ""

\* C16: the fetch of one page makes at most 3 navigation attempts and at
\* most one CAPTCHA wait, takes a bounded number of steps, and returns
\* either an image or "" (the page is missed); a third failed navigation
\* in a row returns "" without a fourth attempt; the calls made and the
\* value returned are functions of the sequence of outcomes.
C16_BoundedDeterministicFetch ==
    /\ fRetry <= navMaxRetries
    /\ fCaptcha.waits <= 1
    /\ Len(fOutcomes) <= navMaxRetries + 4
    /\ fTrace = ExpectedTrace(fVariant, fOutcomes)
    /\ fPc \in {"nav", "detect", "captchaWait", "shot"} => fResult = ""
    /\ fPc = "returned"
         => /\ fResult \in {"", "screenshot.png"}
            /\ fResult = ExpectedResult(fOutcomes)
    /\ (fOutcomes # <<>> /\ fOutcomes[Len(fOutcomes)].kind = "nav"
          /\ ~fOutcomes[Len(fOutcomes)].ok /\ fRetry = navMaxRetries)
         => fPc \in {"returned", "idle", "end"} /\ fResult = ""

\* C16 witness: a worker fetch returned "" after three failed navigation
\* attempts and logged the page as missed.
C16_Witness ==
    /\ fVariant = "worker"
    /\ fPc = "returned"
    /\ fRetry = navMaxRetries
    /\ \A i \in DOMAIN fOutcomes : fOutcomes[i].kind = "nav" /\ ~fOutcomes[i].ok
    /\ fResult = ""
    /\ fTrace = <<"Goto", "Goto", "Goto", "logMissedPage">>

\* C17: a page on which a CAPTCHA was detected and is still present after
\* the wait yields no image and is not handed to extraction.
C17_CaptchaGate ==
    (fPc \in {"returned", "idle", "end"} /\ fCaptcha.present /\ fCaptcha.still)
      => fResult = "" /\ fPage \notin handed

MissedRecords(p) ==
    Cardinality({i \in DOMAIN missedPages : missedPages[i].page = p})

\* C18: between two fetches of a worker, every page fetched so far that
\* was not handed to extraction has exactly one missed-page record, and
\* every page that was handed to extraction has none.
C18_OneRecordPerMissedPage ==
    (fVariant = "worker" /\ fPc \in {"idle", "end"})
      => \A p \in 1..fPage :
           MissedRecords(p) = IF p \in handed THEN 0 ELSE 1

\* C19: a fetch that detected a ban reports the proxy of its session with
\* MarkProxyBanned before it returns, and the fetch that follows is for the
\* same page through a different proxy.
C19_BannedProxyReplaced ==
    /\ (fPc = "returned" /\ fBanned)
         => \E i \in DOMAIN fTrace : fTrace[i] = "MarkProxyBanned"
    /\ (fPrev.banned /\ fPc \in {"nav", "detect", "captchaWait", "shot", "returned"})
         => fPage = fPrev.page /\ fProxy # fPrev.proxy

\* C20: a loaded page that matches any ban signature is classified banned
\* and yields no image, whether or not a CAPTCHA signature matches too; a
\* page that matches neither kind of signature is clean.
C20_BanPrecedence ==
    (fPc = "returned" /\ \E i \in DOMAIN fOutcomes : fOutcomes[i].kind = "page")
      => /\ fContent.ban # {} => (fBanned /\ fResult = "")
         /\ (fContent.ban = {} /\ ~fContent.captcha)
              => (~fBanned /\ ~fCaptcha.present)

\* ------------------------------------------------------------------------
\* Claims about extraction (SpecExtract)
\* ------------------------------------------------------------------------

HasContact(sellerInfo) == sellerInfo.phone # "" \/ sellerInfo.seller # ""

\* Seller lines that name a seller
NamedSellers(text) ==
    Cardinality({i \in DOMAIN text.sellerLines :
                   text.sellerLines[i] \notin {"", "Email Seller"}})

\* C29: every record returned by ExtractSellerInfo and every record of the
\* aggregate has a non-empty phone or a non-empty seller; the records
\* returned are as many as the text has phones or named sellers, whichever
\* is more, whatever other fields were found; and the aggregate holds
\* exactly the records returned.
C29_RecordsCarryContact ==
    /\ \A i \in DOMAIN exSellerInfoList : HasContact(exSellerInfoList[i])
    /\ \A i \in DOMAIN exAllSellerInfo : HasContact(exAllSellerInfo[i])
    /\ exPc \in {"extracted", "appended"}
         => Len(exSellerInfoList)
              = (IF exText.phones >= NamedSellers(exText)
                 THEN exText.phones ELSE NamedSellers(exText))
    /\ exPc = "appended" => exAllSellerInfo = exSellerInfoList

\* C29 witness: a text with a location, a year and a price but no phone
\* and no named seller gave a candidate record, which was dropped.
C29_Witness ==
    /\ exPc = "appended"
    /\ exText.phones = 0
    /\ NamedSellers(exText) = 0
    /\ exText.locations >= 1 /\ exText.years >= 1 /\ exText.prices >= 1
    /\ exAllSellerInfo = <<>>

\* ------------------------------------------------------------------------
\* Claims about the browser sessions (SpecSession)
\* ------------------------------------------------------------------------

OpenGlobalBrowsers ==
    {b \in DOMAIN browsers : browsers[b].owner = GlobalSession /\ browsers[b].closes = 0}

\* C36: under any sequence of Initialize and Close calls no browser is
\* closed more than once, and a CloseBrowserSession or
\* CloseWorkerBrowserSession call made with no active session leaves the
\* session state and every browser as they were.
C36_CloseIdempotent ==
    /\ [](\A b \in DOMAIN browsers : browsers[b].closes <= 1)
    /\ [][(sessLast'.op = "CloseBrowserSession" /\ ~sessionActive)
            => UNCHANGED <<sessionActive, globalBrowser, workerRegistry, browsers>>]_vars
    /\ [][(sessLast'.op = "CloseWorkerBrowserSession"
             /\ workerRegistry[sessLast'.arg] = NoBrowser)
            => UNCHANGED <<sessionActive, globalBrowser, workerRegistry, browsers>>]_vars

\* C36 witness: CloseBrowserSession has just been called with no active
\* session, after the browser of an established global session and the
\* browser of an established worker session were closed.
C36_Witness ==
    /\ sessLast.op = "CloseBrowserSession"
    /\ ~sessionActive
    /\ globalBrowser # NoBrowser
    /\ browsers[globalBrowser].established /\ browsers[globalBrowser].closes = 1
    /\ \E b \in DOMAIN browsers :
          /\ browsers[b].owner # GlobalSession
          /\ browsers[b].established /\ browsers[b].closes = 1

\* C37: once CloseBrowserSession has returned, no browser launched by
\* InitializeBrowserSession is open, also when the call that launched it
\* returned an error after the launch.
C37_NoBrowserLeftOpen ==
    (sessLast.op = "CloseBrowserSession" /\ ~sessionActive) => OpenGlobalBrowsers = {}

\* ------------------------------------------------------------------------
\* Claims about concurrentScrapePages (SpecCollectFair)
\* ------------------------------------------------------------------------

ScrapeSafe ==
    /\ Cardinality({p \in DOMAIN scrapePc : scrapePc[p] = "scrape"}) <= concurrency
    /\ \A p \in DOMAIN scrapePc :
          scrapePc[p] = "send" => Len(results) < scrapeRange.endPage - startPage + 1
    /\ resultsClosed => \A p \in DOMAIN scrapePc : scrapePc[p] = "done"
    /\ collectorPc = "done"
         => /\ Len(allContacts) = scrapeRange.endPage - startPage + 1
            /\ \A p \in ScrapePages :
                  Cardinality({i \in DOMAIN allContacts : allContacts[i] = p}) = 1

\* C38: in concurrentScrapePages at most concurrency scrapePage calls are
\* in progress, a goroutine about to send its result finds room in the
\* results channel, the channel is closed only when every goroutine has
\* sent and finished, and the collector ends, having received exactly one
\* result for each page of startPage .. endPage.
C38_CollectorTerminates == [](ScrapeSafe) /\ <>(collectorPc = "done")

\* C38 witness: the collector has ended a call over more pages than there
\* are semaphore slots.
C38_Witness ==
    /\ collectorPc = "done"
    /\ Len(allContacts) > concurrency

====
